---------------------------- MODULE Spec2Model ----------------------------
(***************************************************************************)
(* Chunk-Extract-Consolidate pipeline of scripts/extract-youtube-moments-  *)
(* v2.py: the chunker (find_speaker_change, chunk_with_overlap), the       *)
(* timestamp locator (extract_exact_timestamp and the enrichment loop of   *)
(* extract_moments_from_chunk), the overlap-duplicate stage of             *)
(* consolidate_moments, semantic_deduplication, global_reranking,          *)
(* consolidate_moments as a whole with its statistics, the run of          *)
(* extract_moments_v2 over the chunks with the retry loop of               *)
(* extract_moments_from_chunk, and parse_vtt_with_timestamps; and          *)
(* chunk_by_sections of scripts/extract-hansard-moments-chunked.py.        *)
(*                                                                         *)
(* Times are integers in milliseconds (the resolution of a VTT timestamp); *)
(* Sec(n) is n seconds.  A text is a sequence of one-character strings, so *)
(* that lower(), split(), join(), strip() and the substring test `in` are  *)
(* computed character by character as Python computes them.                *)
(***************************************************************************)
EXTENDS Integers, Sequences, FiniteSets, TLC

VARIABLES
    \* ---- chunk_with_overlap ----
    captions,           \* the parsed caption list handed to the chunker
    chunk_duration,     \* parameter chunk_duration
    overlap_duration,   \* parameter overlap_duration
    current_start,      \* local current_start
    chunks,             \* local chunks: the metadata of every emitted chunk
    cpc,                \* position in chunk_with_overlap: "start", "loop", "done", "idle"
    \* ---- extract_moments_from_chunk, lines 317-338 ----
    chunk_metadata,     \* the chunk whose response is being enriched
    moment,             \* one moment of the response, enriched in place
    tpc,                \* "pending", "done", "idle", "scan", "scanned"
    scan_i,             \* loop variable i of extract_exact_timestamp (1-based)
    window_size,        \* loop variable window_size
    scan_spans,         \* the spans returned by successive resolutions
    \* ---- consolidate_moments, lines 576-595 ----
    all_chunks_moments, \* parameter all_chunks_moments
    unique_moments,     \* local unique_moments
    overlap_duplicates, \* local overlap_duplicates
    kpc,                \* "overlap", "semantic", "dedup", "rerank", "done", "idle"
    consolidation_stats, \* local consolidation_stats: None until it is built
    \* ---- semantic_deduplication ----
    dedup_moments,      \* parameter moments
    threshold,          \* parameter threshold, in hundredths
    embeddings,         \* local embeddings: None, or one vector per moment
    dedup_i,            \* the outer loop's next index i (1-based)
    removed_indices,    \* local removed_indices (1-based)
    dedup_unique,       \* local unique_moments
    dedup_decisions,    \* local dedup_decisions
    dpc,                \* "embed", "loop", "done", "idle"
    embedding_calls,    \* number of calls of generate_embeddings
    \* ---- global_reranking ----
    rerank_moments,     \* parameter moments
    max_retries,        \* parameter max_retries
    attempt,            \* loop variable attempt
    rerank_outcomes,    \* what each request of the call met, in order
    rerank_sleeps,      \* number of time.sleep calls of the call
    rerank_result,      \* the returned list
    rpc,                \* "start", "attempt", "done", "idle"
    \* ---- extract_moments_v2 with extract_moments_from_chunk ----
    run_chunks,         \* local chunks of extract_moments_v2 (the metadata)
    chunk_i,            \* loop variable i of line 648 (1-based)
    run_attempt,        \* loop variable attempt of extract_moments_from_chunk
    run_moments,        \* local moments of extract_moments_from_chunk
    all_moments,        \* local all_moments
    chunks_metadata,    \* local chunks_metadata
    events,             \* the requests, sleeps and returns of the run, in order
    phase_trace,        \* the phases the run has entered, in order
    upc,                \* "download", "parse", "chunk", "extract", "resolve",
                        \* "consolidate", "upload", "done", "failed", "idle"
    \* ---- parse_vtt_with_timestamps ----
    vtt_lines,          \* local lines: vtt_content.split('\n')
    parse_i,            \* local i (1-based)
    parsed_captions,    \* local captions
    ppc,                \* "loop", "done", "raised", "idle"
    \* ---- chunk_by_sections (extract-hansard-moments-chunked.py) ----
    sections,           \* len(strip_html(content)) of every section
    section_i,          \* loop variable i (1-based, as enumerate(sections, 1))
    section_chunks,     \* local chunks: the metadata of every chunk
    current_size,       \* local current_size
    current_section_nums, \* local current_section_nums
    spc                 \* "start", "loop", "done", "idle"

chunkVars == <<captions, chunk_duration, overlap_duration, current_start, chunks, cpc>>

locatorVars == <<chunk_metadata, moment, tpc, scan_i, window_size, scan_spans>>

consolidateVars ==
    <<all_chunks_moments, unique_moments, overlap_duplicates, kpc,
      consolidation_stats>>

dedupVars ==
    <<dedup_moments, threshold, embeddings, dedup_i, removed_indices,
      dedup_unique, dedup_decisions, dpc, embedding_calls>>

\* the stages after the overlap-duplicate stage, and the run as a whole
rerankVars ==
    <<rerank_moments, max_retries, attempt, rerank_outcomes, rerank_sleeps,
      rerank_result, rpc>>

runVars ==
    <<run_chunks, chunk_i, run_attempt, run_moments, all_moments,
      chunks_metadata, events, phase_trace, upc>>

parseVars == <<vtt_lines, parse_i, parsed_captions, ppc>>

sectionVars == <<sections, section_i, section_chunks, current_size,
                 current_section_nums, spc>>

stageVars == <<dedupVars, rerankVars, runVars, parseVars, sectionVars>>

vars == <<chunkVars, locatorVars, consolidateVars, stageVars>>

-----------------------------------------------------------------------------
(* Units and generic helpers *)

Sec(n) == n * 1000

Abs(x) == IF x < 0 THEN -x ELSE x

Max(a, b) == IF a >= b THEN a ELSE b

Min(a, b) == IF a <= b THEN a ELSE b

\* Python's None for an optional value: an optional is a sequence of length <= 1.
None == <<>>

Some(x) == <<x>>

\* a function that has not been called: its parameters and locals are empty
ChunkIdle ==
    /\ captions = <<>> /\ chunk_duration = 0 /\ overlap_duration = 0
    /\ current_start = 0 /\ chunks = <<>> /\ cpc = "idle"

LocatorIdle ==
    /\ chunk_metadata = None /\ moment = None /\ tpc = "idle"
    /\ scan_i = 0 /\ window_size = 0 /\ scan_spans = <<>>

ConsolidateIdle ==
    /\ all_chunks_moments = <<>> /\ unique_moments = <<>>
    /\ overlap_duplicates = 0 /\ kpc = "idle"
    /\ consolidation_stats = None

DedupIdle ==
    /\ dedup_moments = <<>> /\ threshold = 0 /\ embeddings = None
    /\ dedup_i = 0 /\ removed_indices = {} /\ dedup_unique = <<>>
    /\ dedup_decisions = <<>> /\ dpc = "idle" /\ embedding_calls = 0

RerankIdle ==
    /\ rerank_moments = <<>> /\ max_retries = 0 /\ attempt = 0
    /\ rerank_outcomes = <<>> /\ rerank_sleeps = 0 /\ rerank_result = <<>>
    /\ rpc = "idle"

RunIdle ==
    /\ run_chunks = <<>> /\ chunk_i = 0 /\ run_attempt = 0
    /\ run_moments = <<>> /\ all_moments = <<>> /\ chunks_metadata = <<>>
    /\ events = <<>> /\ phase_trace = <<>> /\ upc = "idle"

ParseIdle ==
    /\ vtt_lines = <<>> /\ parse_i = 0 /\ parsed_captions = <<>> /\ ppc = "idle"

SectionIdle ==
    /\ sections = <<>> /\ section_i = 0 /\ section_chunks = <<>>
    /\ current_size = 0 /\ current_section_nums = <<>> /\ spc = "idle"

StagesIdle == DedupIdle /\ RerankIdle /\ RunIdle /\ ParseIdle /\ SectionIdle

-----------------------------------------------------------------------------
(* Bounds of the model *)

\* longest caption list handed to the chunker
MaxCaps == 3

\* the chunker loop is followed until it has emitted this many chunks
MaxChunks == 5

-----------------------------------------------------------------------------
(* find_speaker_change *)

\* line 146: a pause longer than 3.0 seconds suggests a speaker change
PauseThreshold == Sec(3)

\* line 174: chunk_with_overlap searches with window=180
BreakWindow == Sec(180)

\* lines 137-147: the indices i whose gap to caption i+1 is a candidate
BreakCandidates(caps, target_time, window) ==
    { i \in 1..(Len(caps) - 1) :
        /\ Abs(caps[i].end - target_time) <= window
        /\ caps[i + 1].start - caps[i].end > PauseThreshold }

\* the mutated sort key: largest pause first, then proximity
BreakKeyLessByPause(caps, target_time, i, j) ==
    LET di == Abs(caps[i].end - target_time)
        dj == Abs(caps[j].end - target_time)
        pi == caps[i + 1].start - caps[i].end
        pj == caps[j + 1].start - caps[j].end
    IN  \/ -pi < -pj
        \/ pi = pj /\ di < dj

\* line 153: the sort key (abs(end - target), -pause), compared lexicographically
BreakKeyLess(caps, target_time, i, j) ==
    LET di == Abs(caps[i].end - target_time)
        dj == Abs(caps[j].end - target_time)
        pi == caps[i + 1].start - caps[i].end
        pj == caps[j + 1].start - caps[j].end
    IN  \/ di < dj
        \/ di = dj /\ -pi < -pj

\* lines 149-154: candidates[0] after the (stable) sort, or target_time
find_speaker_change(caps, target_time, window) ==
    LET cands == BreakCandidates(caps, target_time, window) IN
    IF cands = {}
    THEN target_time
    ELSE LET best == CHOOSE i \in cands :
                        \A j \in cands \ {i} :
                            \/ BreakKeyLess(caps, target_time, i, j)
                            \/ /\ ~BreakKeyLess(caps, target_time, j, i)
                               /\ i < j
         IN  caps[best].end

-----------------------------------------------------------------------------
(* chunk_with_overlap *)

\* line 164: max_time = captions[-1][1]
MaxTime(caps) == caps[Len(caps)].end

\* the mutated comprehension: only captions that end inside the range
RECURSIVE FilterSeqContained(_, _, _)
FilterSeqContained(s, lo, hi) ==
    IF s = <<>> THEN <<>>
    ELSE LET rest == FilterSeqContained(Tail(s), lo, hi) IN
         IF Head(s).start >= lo /\ Head(s).end < hi
         THEN <<Head(s)>> \o rest
         ELSE rest

\* SelectSeq with a predicate over the elements (list comprehension, lines 179-180)
RECURSIVE FilterSeq(_, _, _)
FilterSeq(s, lo, hi) ==
    IF s = <<>> THEN <<>>
    ELSE LET rest == FilterSeq(Tail(s), lo, hi) IN
         IF Head(s).start >= lo /\ Head(s).start < hi
         THEN <<Head(s)>> \o rest
         ELSE rest

\* the mutated window end: the natural break is not searched
ActualEndNoBreak(caps, cs, cd) == Min(cs + cd, MaxTime(caps))

\* lines 170-176: the end of the window that starts at cs
ActualEnd(caps, cs, cd) ==
    LET target_end == cs + cd IN
    IF target_end < MaxTime(caps)
    THEN find_speaker_change(caps, target_end, BreakWindow)
    ELSE MaxTime(caps)

\* the mutated overlap range: reaches back a whole overlap_duration too far
OverlapWithNextWide(caps, actual_end, od) ==
    IF actual_end < MaxTime(caps)
    THEN Some([start |-> Max(0, actual_end - 2 * od), end |-> actual_end])
    ELSE None

\* the mutated overlap range: present on the final chunk too
OverlapWithNextAlways(caps, actual_end, od) ==
    Some([start |-> Max(0, actual_end - od), end |-> actual_end])

\* line 186: overlap_start, None for the final chunk
OverlapWithNext(caps, actual_end, od) ==
    IF actual_end < MaxTime(caps)
    THEN Some([start |-> Max(0, actual_end - od), end |-> actual_end])
    ELSE None

\* lines 188-199: the metadata of the chunk of window [cs, actual_end)
ChunkMetadata(caps, id, cs, actual_end, od) ==
    LET chunk_captions == FilterSeq(caps, cs, actual_end) IN
    [ chunk_id          |-> id,
      start_time        |-> cs,
      end_time          |-> actual_end,
      duration          |-> actual_end - cs,
      caption_count     |-> Len(chunk_captions),
      overlap_with_next |-> OverlapWithNext(caps, actual_end, od),
      captions          |-> chunk_captions ]

\* the mutated advance: the next window starts after the break, not before it
NextStartSkipping(actual_end, od) == actual_end + od

\* line 207: current_start = actual_end - overlap_duration
NextStart(actual_end, od) == actual_end - od

\* lines 161-168
ChunkBegin ==
    /\ cpc = "start"
    /\ IF captions = <<>>
       THEN cpc' = "done"
       ELSE cpc' = "loop"
    /\ current_start' = 0
    /\ chunks' = <<>>
    /\ UNCHANGED <<captions, chunk_duration, overlap_duration>>
    /\ UNCHANGED <<locatorVars, consolidateVars, stageVars>>

\* lines 169-207: one iteration of the while loop
ChunkStep ==
    /\ cpc = "loop"
    /\ current_start < MaxTime(captions)
    /\ Len(chunks) < MaxChunks
    /\ LET actual_end == ActualEnd(captions, current_start, chunk_duration)
           meta == ChunkMetadata(captions, Len(chunks), current_start,
                                 actual_end, overlap_duration)
       IN  /\ chunks' = IF meta.captions # <<>> THEN Append(chunks, meta) ELSE chunks
           /\ IF actual_end >= MaxTime(captions)
              THEN /\ cpc' = "done"
                   /\ current_start' = current_start
              ELSE /\ cpc' = "loop"
                   /\ current_start' = NextStart(actual_end, overlap_duration)
    /\ UNCHANGED <<captions, chunk_duration, overlap_duration>>
    /\ UNCHANGED <<locatorVars, consolidateVars, stageVars>>

\* line 169 false, line 209
ChunkExit ==
    /\ cpc = "loop"
    /\ ~(current_start < MaxTime(captions))
    /\ cpc' = "done"
    /\ UNCHANGED <<captions, chunk_duration, overlap_duration, current_start, chunks>>
    /\ UNCHANGED <<locatorVars, consolidateVars, stageVars>>

-----------------------------------------------------------------------------
(* Text: str.lower, str.split, str.join, str.strip, the substring test *)

\* str.lower on one character
LowerChar(c) ==
    CASE c = "A" -> "a"
      [] c = "B" -> "b"
      [] c = "F" -> "f"
      [] c = "M" -> "m"
      [] c = "R" -> "r"
      [] c = "T" -> "t"
      [] OTHER   -> c

\* str.lower
Lower(s) == [k \in 1..Len(s) |-> LowerChar(s[k])]

IsSpace(c) == c = " "

\* str.lstrip
RECURSIVE LStrip(_)
LStrip(s) ==
    IF s # <<>> /\ IsSpace(Head(s)) THEN LStrip(Tail(s)) ELSE s

\* str.rstrip
RECURSIVE RStrip(_)
RStrip(s) ==
    IF s # <<>> /\ IsSpace(s[Len(s)]) THEN RStrip(SubSeq(s, 1, Len(s) - 1)) ELSE s

\* str.strip
Strip(s) == RStrip(LStrip(s))

\* the length of the longest prefix of s without whitespace
RECURSIVE WordLen(_)
WordLen(s) ==
    IF s = <<>> \/ IsSpace(Head(s)) THEN 0 ELSE 1 + WordLen(Tail(s))

\* str.split(): the maximal runs of non-whitespace characters
RECURSIVE Split(_)
Split(s) ==
    LET t == LStrip(s) IN
    IF t = <<>> THEN <<>>
    ELSE LET n == WordLen(t) IN
         <<SubSeq(t, 1, n)>> \o Split(SubSeq(t, n + 1, Len(t)))

\* ' '.join(parts)
RECURSIVE JoinSpace(_)
JoinSpace(parts) ==
    IF parts = <<>> THEN <<>>
    ELSE IF Len(parts) = 1 THEN Head(parts)
    ELSE Head(parts) \o <<" ">> \o JoinSpace(Tail(parts))

\* ' '.join(s.split())
NormalizeSpaces(s) == JoinSpace(Split(s))

\* needle in hay
Contains(needle, hay) ==
    \E k \in 0..(Len(hay) - Len(needle)) :
        SubSeq(hay, k + 1, k + Len(needle)) = needle

-----------------------------------------------------------------------------
(* parse_timestamp, format_timestamp *)

\* lines 94-99: "HH:MM:SS", the three fields as integers
format_timestamp(ms) ==
    [ hours   |-> ms \div Sec(3600),
      minutes |-> (ms % Sec(3600)) \div Sec(60),
      secs    |-> (ms % Sec(60)) \div Sec(1) ]

\* lines 80-92 on a three-field timestamp
parse_timestamp(ts) == Sec(ts.hours * 3600 + ts.minutes * 60 + ts.secs)

-----------------------------------------------------------------------------
(* extract_exact_timestamp *)

\* line 222: window sizes run from 1 to 10
MaxWindowCaptions == 10

\* line 217
NormalizedQuote(quote) == NormalizeSpaces(Lower(quote))

\* lines 223-225: the normalized text of captions i .. i+size-1 (1-based)
WindowText(chunk_captions, i, size) ==
    NormalizeSpaces(
        JoinSpace([k \in 1..size |-> Lower(chunk_captions[i + k - 1].text)]))

\* line 228
WindowMatches(normalized_quote, window_text) ==
    \/ Contains(normalized_quote, window_text)
    \/ Contains(window_text, normalized_quote)

\* lines 220-228: every (i, window_size) the loops visit whose window matches
MatchingWindows(quote, chunk_captions) ==
    { p \in (1..Len(chunk_captions)) \X (1..MaxWindowCaptions) :
        /\ p[2] <= Len(chunk_captions) - p[1] + 1
        /\ WindowMatches(NormalizedQuote(quote),
                         WindowText(chunk_captions, p[1], p[2])) }

\* the loops' order: start index first, then window size
FirstWindow(ws) ==
    CHOOSE p \in ws :
        \A q \in ws : p[1] < q[1] \/ (p[1] = q[1] /\ p[2] <= q[2])

\* lines 211-234
extract_exact_timestamp(quote, chunk_captions, chunk_start_time) ==
    LET ws == MatchingWindows(quote, chunk_captions) IN
    IF ws # {}
    THEN LET p == FirstWindow(ws) IN
         << format_timestamp(chunk_captions[p[1]].start),
            format_timestamp(chunk_captions[p[1] + p[2] - 1].end) >>
    ELSE << format_timestamp(chunk_start_time),
            format_timestamp(chunk_start_time + Sec(60)) >>

-----------------------------------------------------------------------------
(* extract_moments_from_chunk, the enrichment of one moment *)

\* lines 330-336
InOverlapRegion(overlap, timestamp_start) ==
    IF overlap # None
    THEN parse_timestamp(timestamp_start) >= overlap[1].start
    ELSE FALSE

\* lines 319-336: the fields the loop body sets on the moment
EnrichedFields(m, meta) ==
    LET ts == extract_exact_timestamp(m.quote, meta.captions, meta.start_time) IN
    [ timestamp_start      |-> ts[1],
      timestamp_end        |-> ts[2],
      source_chunk_id      |-> meta.chunk_id,
      is_in_overlap_region |-> InOverlapRegion(meta.overlap_with_next, ts[1]) ]

\* lines 318-336: one iteration of `for moment in moments`
ResolveMoment ==
    /\ tpc = "pending"
    /\ moment' = EnrichedFields(moment, chunk_metadata) @@ moment
    /\ tpc' = "done"
    /\ UNCHANGED <<chunk_metadata, scan_i, window_size, scan_spans>>
    /\ UNCHANGED <<chunkVars, consolidateVars, stageVars>>

-----------------------------------------------------------------------------
(* consolidate_moments, step 1: remove exact duplicates *)

\* line 582
QuoteKey(m) == Strip(Lower(m.quote))

\* the mutated replacement rule: a duplicate never replaces the stored moment
ReplacesStoredNever(m) == FALSE

\* line 587: a duplicate replaces the stored moment when it is not in an overlap
ReplacesStored(m) == ~m.is_in_overlap_region

\* lines 581-593: the state after the loop has read the first n moments.
\* seen maps a quote key to its index in unique (seen_quotes).
RECURSIVE OverlapFold(_, _)
OverlapFold(input, n) ==
    IF n = 0
    THEN [unique |-> <<>>, seen |-> <<>>, dups |-> 0]
    ELSE LET prev == OverlapFold(input, n - 1)
             m == input[n]
             key == QuoteKey(m)
             hits == { k \in 1..Len(prev.seen) : prev.seen[k] = key }
         IN  IF hits # {}
             THEN LET idx == CHOOSE k \in hits : TRUE IN
                  [ unique |-> IF ReplacesStored(m)
                               THEN [prev.unique EXCEPT ![idx] = m]
                               ELSE prev.unique,
                    seen   |-> prev.seen,
                    dups   |-> prev.dups + 1 ]
             ELSE [ unique |-> Append(prev.unique, m),
                    seen   |-> Append(prev.seen, key),
                    dups   |-> prev.dups ]

\* lines 576-595
RemoveOverlapDuplicates ==
    /\ kpc = "overlap"
    /\ LET r == OverlapFold(all_chunks_moments, Len(all_chunks_moments)) IN
       /\ unique_moments' = r.unique
       /\ overlap_duplicates' = r.dups
    /\ kpc' = "semantic"
    /\ UNCHANGED <<all_chunks_moments, consolidation_stats>>
    /\ UNCHANGED <<chunkVars, locatorVars, stageVars>>

-----------------------------------------------------------------------------
(* Inputs of the chunker *)

\* line 74
CHUNK_DURATION == Sec(9000)

\* line 75
OVERLAP_DURATION == Sec(1200)

\* caption boundaries of a short recording
GridShort == { Sec(0), Sec(290), Sec(294), Sec(400), Sec(600), Sec(1000), Sec(1004) }

\* <<chunk_duration, overlap_duration>> tried on a short recording
ParamsShort ==
    { <<Sec(300), Sec(100)>>, <<Sec(300), Sec(0)>>, <<Sec(600), Sec(100)>>,
      <<Sec(300), Sec(300)>>, <<Sec(200), Sec(100)>> }

\* caption boundaries of a recording of a few hours
GridLong == { Sec(0), Sec(8950), Sec(8960), Sec(9000), Sec(9100), Sec(16700), Sec(17000) }

CaptionsOn(grid) ==
    { [start |-> a, end |-> b, text |-> <<"a">>] : a \in grid, b \in grid } \ 
    { c \in [start : grid, end : grid, text : {<<"a">>}] : c.end < c.start }

\* the parser appends captions in input order: start times do not decrease
CaptionLists(grid) ==
    { s \in UNION { [1..n -> CaptionsOn(grid)] : n \in 0..MaxCaps } :
        \A k \in 1..(Len(s) - 1) : s[k].start <= s[k + 1].start }

InitChunk ==
    /\ \/ /\ captions \in CaptionLists(GridShort)
          /\ \E p \in ParamsShort : chunk_duration = p[1] /\ overlap_duration = p[2]
       \/ /\ captions \in CaptionLists(GridLong)
          /\ chunk_duration = CHUNK_DURATION
          /\ overlap_duration = OVERLAP_DURATION
    /\ current_start = 0
    /\ chunks = <<>>
    /\ cpc = "start"
    /\ LocatorIdle /\ ConsolidateIdle /\ StagesIdle

NextChunk == ChunkBegin \/ ChunkStep \/ ChunkExit

SpecChunk == InitChunk /\ [][NextChunk]_vars

-----------------------------------------------------------------------------
(* Inputs of the timestamp locator *)

\* most captions in a chunk handed to the locator
MaxTsCaps == 3

\* longest quote, in characters
MaxQuoteLen == 3

\* caption k of a chunk lasts from CueBoundary(layout, k) to
\* CueBoundary(layout, k + 1): cues of 1.5 s from 12 s on, or of 60 s from 0 on
CueBoundary(layout, k) ==
    IF layout = "short" THEN Sec(12) + (k - 1) * 1500 ELSE (k - 1) * Sec(60)

CapTexts == { <<"a">>, <<"b">>, <<"A", " ", " ", "b">> }

QuoteChars == { "a", "B", " " }

Quotes == UNION { [1..n -> QuoteChars] : n \in 0..MaxQuoteLen }

\* the chunks handed to extract_moments_from_chunk: the fields of
\* ChunkMetadata that lines 317-338 read
LocatorChunks ==
    { [ chunk_id          |-> 0,
        start_time        |-> st,
        overlap_with_next |-> ov,
        captions          |-> [k \in 1..Len(texts) |->
                                 [ start |-> CueBoundary(layout, k),
                                   end   |-> CueBoundary(layout, k + 1),
                                   text  |-> texts[k] ]] ] :
        layout \in {"short", "long"},
        texts \in UNION { [1..n -> CapTexts] : n \in 1..MaxTsCaps },
        st \in {0, Sec(12)},
        ov \in {None, Some([start |-> 13500, end |-> Sec(200)])} }

TextMinisterSaid ==
    <<"t", "h", "e", " ", "m", "i", "n", "i", "s", "t", "e", "r", " ",
    "s", "a", "i", "d">>

TextUnacceptable ==
    <<"t", "h", "i", "s", " ", "i", "s", " ", "u", "n", "a", "c", "c",
    "e", "p", "t", "a", "b", "l", "e">>

QuoteMinister ==
    <<"t", "h", "e", " ", "m", "i", "n", "i", "s", "t", "e", "r", " ",
    "s", "a", "i", "d", " ", "t", "h", "i", "s", " ", "i", "s", " ", "u",
    "n", "a", "c", "c", "e", "p", "t", "a", "b", "l", "e">>

\* the chunk of the timestamp-matching example
MinisterChunk ==
    [ chunk_id          |-> 0,
      start_time        |-> 0,
      overlap_with_next |-> None,
      captions          |-> << [start |-> Sec(12), end |-> 13500, text |-> TextMinisterSaid],
                               [start |-> 13500, end |-> Sec(15), text |-> TextUnacceptable] >> ]

InitLocator ==
    /\ \/ /\ chunk_metadata \in LocatorChunks
          /\ \E q \in Quotes : moment = [quote |-> q, viral_score |-> 8]
       \/ /\ chunk_metadata = MinisterChunk
          /\ moment = [quote |-> QuoteMinister, viral_score |-> 8]
    /\ tpc = "pending"
    /\ scan_i = 0 /\ window_size = 0 /\ scan_spans = <<>>
    /\ ChunkIdle /\ ConsolidateIdle /\ StagesIdle

NextLocator == ResolveMoment

SpecLocator == InitLocator /\ [][NextLocator]_vars

-----------------------------------------------------------------------------
(* Inputs of consolidate_moments *)

\* most candidates handed to consolidate_moments
MaxCands == 3

QuoteFixTheMRT ==
    <<"F", "i", "x", " ", "t", "h", "e", " ", "M", "R", "T">>

QuoteFixTheMrtTrailing ==
    <<"f", "i", "x", " ", "t", "h", "e", " ", "m", "r", "t", " ">>

ConsQuotes == { QuoteFixTheMRT, QuoteFixTheMrtTrailing, <<"a">>, <<" ", "A">> }

\* the candidates of all chunks: the fields that lines 576-595 read, and the
\* score, which tells two candidates with the same quote apart
Candidates ==
    [ quote : ConsQuotes, is_in_overlap_region : BOOLEAN, viral_score : {7, 9} ]

InitConsolidate ==
    /\ all_chunks_moments \in UNION { [1..n -> Candidates] : n \in 0..MaxCands }
    /\ unique_moments = <<>>
    /\ overlap_duplicates = 0
    /\ kpc = "overlap"
    /\ consolidation_stats = None
    /\ ChunkIdle /\ LocatorIdle /\ StagesIdle

NextConsolidate == RemoveOverlapDuplicates

SpecConsolidate == InitConsolidate /\ [][NextConsolidate]_vars

-----------------------------------------------------------------------------
(* Properties of the chunker *)

CaptionStarts == { captions[k].start : k \in 1..Len(captions) }

LastEmittedEnd == IF chunks = <<>> THEN 0 ELSE chunks[Len(chunks)].end_time

C2_CurrentStartIncreases ==
    [][(cpc = "loop" /\ cpc' = "loop") => current_start' > current_start]_vars

\* the pause after caption i
PauseAfter(caps, i) == caps[i + 1].start - caps[i].end

\* C3 as stated: the boundaries the claim allows: target_end when no gap in
\* the window exceeds 3 s, else the end of a gap with the largest pause that
\* is, among those, nearest to target_end.
LargestPauseBreaks(caps, target_time, window) ==
    LET cands == BreakCandidates(caps, target_time, window) IN
    IF cands = {} THEN {target_time}
    ELSE { caps[i].end : i \in
            { i \in cands : \A j \in cands :
                \/ PauseAfter(caps, i) > PauseAfter(caps, j)
                \/ /\ PauseAfter(caps, i) = PauseAfter(caps, j)
                   /\ Abs(caps[i].end - target_time) <= Abs(caps[j].end - target_time) } }

\* C3 amended: the boundaries of the nearest gap, the largest pause deciding
\* between gaps equally near.
NearestBreaks(caps, target_time, window) ==
    LET cands == BreakCandidates(caps, target_time, window) IN
    IF cands = {} THEN {target_time}
    ELSE { caps[i].end : i \in
            { i \in cands : \A j \in cands :
                \/ Abs(caps[i].end - target_time) < Abs(caps[j].end - target_time)
                \/ /\ Abs(caps[i].end - target_time) = Abs(caps[j].end - target_time)
                   /\ PauseAfter(caps, i) >= PauseAfter(caps, j) } }

\* the loop is about to search a natural break near target_end
Searching ==
    /\ cpc = "loop"
    /\ current_start < MaxTime(captions)
    /\ current_start + chunk_duration < MaxTime(captions)

ExampleCaptions(total) ==
    /\ captions # <<>>
    /\ captions[1].start = 0
    /\ MaxTime(captions) = total
    /\ \A k \in 1..Len(captions) : captions[k].end <= total
    /\ \E i \in 1..(Len(captions) - 1) :
          /\ captions[i].end = Sec(8950)
          /\ PauseAfter(captions, i) > PauseThreshold
          /\ captions[i + 1].start < Sec(9000)
    /\ chunk_duration = Sec(9000)
    /\ overlap_duration = Sec(1200)

C5_OverlapNonEmpty ==
    \A k \in 1..(Len(chunks) - 1) :
        /\ chunks[k].overlap_with_next # None
        /\ chunks[k].overlap_with_next[1].start < chunks[k].overlap_with_next[1].end
        /\ chunks[k].overlap_with_next[1].end - chunks[k].overlap_with_next[1].start
              <= overlap_duration

\* C5 amended: every emitted chunk but the last has an overlap_with_next
\* that is present, ends at the chunk's end_time, starts at or after 0 and is
\* no wider than overlap_duration; it is non-empty (start < end) if and only
\* if overlap_duration > 0.  Only a chunk that ends at or after the total
\* duration has none.
C5_OverlapBounded ==
    /\ \A k \in 1..(Len(chunks) - 1) :
          /\ chunks[k].overlap_with_next # None
          /\ chunks[k].overlap_with_next[1].end = chunks[k].end_time
          /\ chunks[k].overlap_with_next[1].start >= 0
          /\ chunks[k].overlap_with_next[1].end - chunks[k].overlap_with_next[1].start
                <= overlap_duration
          /\ (chunks[k].overlap_with_next[1].start < chunks[k].overlap_with_next[1].end)
                <=> (overlap_duration > 0)
    /\ \A k \in 1..Len(chunks) :
          (chunks[k].overlap_with_next = None) <=> (chunks[k].end_time >= MaxTime(captions))

\* C5 witness: a chunk that is not the last, with a positive overlap
\* cut short at time 0
C5_WitnessOverlap ==
    /\ Len(chunks) >= 2
    /\ overlap_duration > 0
    /\ chunks[1].overlap_with_next # None
    /\ chunks[1].overlap_with_next[1].start = 0
    /\ chunks[1].overlap_with_next[1].end < overlap_duration

-----------------------------------------------------------------------------
(* Properties of the timestamp locator *)

\* the windows of 1 to 10 consecutive captions whose normalized text
\* contains the normalized quote
ContainingWindows(quote, chunk_captions) ==
    { p \in (1..Len(chunk_captions)) \X (1..MaxWindowCaptions) :
        /\ p[2] <= Len(chunk_captions) - p[1] + 1
        /\ Contains(NormalizedQuote(quote), WindowText(chunk_captions, p[1], p[2])) }

\* the formatted span of the window p
WindowSpan(chunk_captions, p) ==
    << format_timestamp(chunk_captions[p[1]].start),
       format_timestamp(chunk_captions[p[1] + p[2] - 1].end) >>

\* C6 as stated: the quote "the minister said this is unacceptable" over the
\* captions "the minister said" (12.0-13.5 s) and "this is unacceptable"
\* (13.5-15.0 s) resolves to the span from 12.0 s to 15.0 s.
C6_MinisterSpan ==
    (tpc = "done" /\ chunk_metadata = MinisterChunk /\ moment.quote = QuoteMinister) =>
        /\ moment.timestamp_start = format_timestamp(Sec(12))
        /\ moment.timestamp_end = format_timestamp(Sec(15))

\* C7 as stated: when some window of 1 to 10 captions contains the quote,
\* the span returned is that of a tightest one: a window containing the
\* quote such that no window of fewer captions contains it.
C7_TightestSpan ==
    (tpc = "done" /\ ContainingWindows(moment.quote, chunk_metadata.captions) # {}) =>
        \E p \in ContainingWindows(moment.quote, chunk_metadata.captions) :
            /\ \A q \in ContainingWindows(moment.quote, chunk_metadata.captions) :
                  p[2] <= q[2]
            /\ <<moment.timestamp_start, moment.timestamp_end>>
                  = WindowSpan(chunk_metadata.captions, p)

\* the fields of a moment whose timestamps were matched: those of the
\* response and the four that lines 325-336 set
MatchedFields ==
    { "quote", "viral_score", "timestamp_start", "timestamp_end",
      "source_chunk_id", "is_in_overlap_region" }

\* C8 as stated: when no window matches the quote, the moment gets the span
\* [chunk_start, chunk_start + 60 s) and carries a flag that a moment with
\* matched timestamps does not carry.
C8_UnresolvedFlagged ==
    (tpc = "done" /\ MatchingWindows(moment.quote, chunk_metadata.captions) = {}) =>
        /\ moment.timestamp_start = format_timestamp(chunk_metadata.start_time)
        /\ moment.timestamp_end = format_timestamp(chunk_metadata.start_time + Sec(60))
        /\ DOMAIN moment \ MatchedFields # {}

-----------------------------------------------------------------------------
(* Properties of the overlap-duplicate stage *)

\* the positions of the input whose normalized quote is key
Group(key) ==
    { i \in 1..Len(all_chunks_moments) : QuoteKey(all_chunks_moments[i]) = key }

\* the positions of the output whose normalized quote is key
Kept(key) ==
    { k \in 1..Len(unique_moments) : QuoteKey(unique_moments[k]) = key }

InputKeys == { QuoteKey(all_chunks_moments[i]) : i \in 1..Len(all_chunks_moments) }

\* C9: of two candidates with equal lowercased, trimmed quotes, one in an
\* overlap region and one not, the output holds the one that is not, and
\* only that one, whichever comes first; more generally the candidate kept
\* for a quote is outside the overlap regions whenever one with that quote is.
C9_NonOverlapKept ==
    kpc = "semantic" =>
        /\ \A i, j \in 1..Len(all_chunks_moments) :
              ( /\ Group(QuoteKey(all_chunks_moments[i])) = {i, j}
                /\ ~all_chunks_moments[i].is_in_overlap_region
                /\ all_chunks_moments[j].is_in_overlap_region ) =>
                    /\ Cardinality(Kept(QuoteKey(all_chunks_moments[i]))) = 1
                    /\ \A k \in Kept(QuoteKey(all_chunks_moments[i])) :
                          unique_moments[k] = all_chunks_moments[i]
        /\ \A key \in InputKeys :
              (\E i \in Group(key) : ~all_chunks_moments[i].is_in_overlap_region) =>
                  /\ Cardinality(Kept(key)) = 1
                  /\ \A k \in Kept(key) : ~unique_moments[k].is_in_overlap_region

\* C9 witness: B {"fix the mrt ", in an overlap} arrives before
\* A {"Fix the MRT", not in an overlap} and only A is kept
C9_WitnessMrt ==
    /\ kpc = "semantic"
    /\ Len(all_chunks_moments) = 2
    /\ all_chunks_moments[1].quote = QuoteFixTheMrtTrailing
    /\ all_chunks_moments[1].is_in_overlap_region
    /\ all_chunks_moments[2].quote = QuoteFixTheMRT
    /\ ~all_chunks_moments[2].is_in_overlap_region
    /\ unique_moments = <<all_chunks_moments[2]>>
    /\ overlap_duplicates = 1

\* C10 as stated: when the candidates that share a normalized quote are all
\* outside the overlap regions, or all inside one, the first of them in
\* input order is the one kept.
C10_FirstSeenKept ==
    kpc = "semantic" =>
        \A key \in InputKeys :
            ( /\ Cardinality(Group(key)) >= 2
              /\ \A i, j \in Group(key) :
                    all_chunks_moments[i].is_in_overlap_region
                        = all_chunks_moments[j].is_in_overlap_region ) =>
                /\ Cardinality(Kept(key)) = 1
                /\ \A k \in Kept(key) :
                      unique_moments[k] =
                          all_chunks_moments[CHOOSE i \in Group(key) :
                                                \A j \in Group(key) : i <= j]

-----------------------------------------------------------------------------
(* cosine_similarity and semantic_deduplication *)

\* most candidates handed to semantic_deduplication
MaxDedup == 3

\* SEMANTIC_SIMILARITY_THRESHOLD = 0.85, in hundredths
SEMANTIC_SIMILARITY_THRESHOLD == 85

RECURSIVE DotTo(_, _, _)
DotTo(a, b, n) == IF n = 0 THEN 0 ELSE a[n] * b[n] + DotTo(a, b, n - 1)

\* sum(x * y for x, y in zip(a, b)): zip stops at the shorter vector
Dot(a, b) == DotTo(a, b, Min(Len(a), Len(b)))

\* norm_a squared
NormSq(a) == DotTo(a, a, Len(a))

\* cosine_similarity(a, b) > t / 100, with the comparison when the
\* similarity is the opposite of what the code computes (a distance)
SimilarityExceedsAsDistance(a, b, t) ==
    LET d  == Dot(a, b)
        nn == NormSq(a) * NormSq(b)
    IN  IF nn = 0 THEN 100 > t
        ELSE \/ d <= 0
             \/ (t < 100 /\ d * d * 10000 < (100 - t) * (100 - t) * nn)

\* the mutated comparison: similarity >= threshold
SimilarityAtLeast(a, b, t) ==
    LET d  == Dot(a, b)
        nn == NormSq(a) * NormSq(b)
    IN  IF nn = 0 THEN 0 >= t
        ELSE IF t >= 0 THEN (d > 0 \/ t = 0) /\ d * d * 10000 >= t * t * nn
        ELSE d >= 0 \/ d * d * 10000 <= t * t * nn

\* cosine_similarity(a, b) > t / 100: the similarity is
\* dot / (sqrt(NormSq(a)) * sqrt(NormSq(b))), or 0 when a norm is 0; the
\* comparison is made on the squares, in exact arithmetic
SimilarityExceeds(a, b, t) ==
    LET d  == Dot(a, b)
        nn == NormSq(a) * NormSq(b)
    IN  IF nn = 0 THEN 0 > t
        ELSE IF t >= 0 THEN d > 0 /\ d * d * 10000 > t * t * nn
        ELSE d >= 0 \/ d * d * 10000 < t * t * nn

\* the inner loop with a transitive cluster: j also joins through a member
ClusterOfTransitive(i, removed, emb, t, n) ==
    { j \in (i + 1)..n :
        /\ j \notin removed
        /\ \/ SimilarityExceeds(emb[i], emb[j], t)
           \/ \E k \in (i + 1)..(j - 1) :
                 /\ k \notin removed
                 /\ SimilarityExceeds(emb[i], emb[k], t)
                 /\ SimilarityExceeds(emb[k], emb[j], t) }

\* the inner loop of lines 435-443: the indices j > i, not yet removed,
\* that the pass of i removes
ClusterOf(i, removed, emb, t, n) ==
    { j \in (i + 1)..n :
        j \notin removed /\ SimilarityExceeds(emb[i], emb[j], t) }

\* the value of cosine_similarity(a, b), kept exact: it is
\* dot / sqrt(norms_sq), or 0 when norms_sq is 0
cosine_similarity(a, b) ==
    [dot |-> Dot(a, b), norms_sq |-> NormSq(a) * NormSq(b)]

\* the decisions appended during the pass of i, in the order of j
RECURSIVE DecisionsOf(_, _, _, _)
DecisionsOf(i, cluster, emb, j) ==
    IF j <= i THEN <<>>
    ELSE LET before == DecisionsOf(i, cluster, emb, j - 1)
         IN  IF j \in cluster
             THEN Append(before, [kept_index |-> i, removed_index |-> j,
                                  similarity |-> cosine_similarity(emb[i], emb[j]),
                                  reason |-> "semantic_similarity"])
             ELSE before

\* lines 409-420: no moments, or the answer of generate_embeddings
DedupBegin ==
    /\ dpc = "embed"
    /\ embedding_calls' = IF dedup_moments = <<>> THEN embedding_calls
                          ELSE embedding_calls + 1
    /\ IF dedup_moments = <<>>
       THEN /\ dpc' = "done"
            /\ UNCHANGED <<embeddings, dedup_i, dedup_unique>>
       ELSE \E e \in {None} \cup
                     { Some(v) : v \in [1..Len(dedup_moments) ->
                                          [1..2 -> 0..2]] } :
              /\ embeddings' = e
              /\ IF e = None
                 THEN /\ dedup_unique' = dedup_moments
                      /\ dpc' = "done"
                      /\ UNCHANGED dedup_i
                 ELSE /\ dedup_i' = 1
                      /\ dpc' = "loop"
                      /\ UNCHANGED dedup_unique
    /\ UNCHANGED <<dedup_moments, threshold, removed_indices, dedup_decisions>>
    /\ UNCHANGED <<chunkVars, locatorVars, consolidateVars, rerankVars, runVars, parseVars, sectionVars>>

\* lines 427-452: one pass of the outer loop
DedupStep ==
    /\ dpc = "loop"
    /\ dedup_i <= Len(dedup_moments)
    /\ IF dedup_i \in removed_indices
       THEN UNCHANGED <<removed_indices, dedup_unique, dedup_decisions>>
       ELSE LET cluster == ClusterOf(dedup_i, removed_indices, embeddings[1],
                                     threshold, Len(dedup_moments))
            IN  /\ dedup_unique' = Append(dedup_unique, dedup_moments[dedup_i])
                /\ removed_indices' = removed_indices \cup cluster
                /\ dedup_decisions' =
                       dedup_decisions \o
                       DecisionsOf(dedup_i, cluster, embeddings[1],
                                   Len(dedup_moments))
    /\ dedup_i' = dedup_i + 1
    /\ UNCHANGED <<dedup_moments, threshold, embeddings, dpc, embedding_calls>>
    /\ UNCHANGED <<chunkVars, locatorVars, consolidateVars, rerankVars, runVars, parseVars, sectionVars>>

\* lines 454-456: the outer loop is over
DedupReturn ==
    /\ dpc = "loop"
    /\ dedup_i > Len(dedup_moments)
    /\ dpc' = "done"
    /\ UNCHANGED <<dedup_moments, threshold, embeddings, dedup_i,
                   removed_indices, dedup_unique, dedup_decisions,
                   embedding_calls>>
    /\ UNCHANGED <<chunkVars, locatorVars, consolidateVars, rerankVars, runVars, parseVars, sectionVars>>

\* the k-th candidate: candidates differ in their quotes
DedupMoment(k) == [quote |-> <<"q", ToString(k)>>, viral_score |-> 8]

\* thresholds: the default and three others (0.8 is the similarity of the
\* vectors (1, 2) and (2, 1))
Thresholds == { SEMANTIC_SIMILARITY_THRESHOLD, 50, 80, 99 }

InitDedup ==
    /\ \E n \in 0..MaxDedup : dedup_moments = [k \in 1..n |-> DedupMoment(k)]
    /\ threshold \in Thresholds
    /\ embeddings = None
    /\ dedup_i = 0
    /\ removed_indices = {}
    /\ dedup_unique = <<>>
    /\ dedup_decisions = <<>>
    /\ dpc = "embed"
    /\ embedding_calls = 0
    /\ ChunkIdle /\ LocatorIdle /\ ConsolidateIdle /\ RerankIdle /\ RunIdle
    /\ ParseIdle /\ SectionIdle

NextDedup == DedupBegin \/ DedupStep \/ DedupReturn

SpecDedup == InitDedup /\ [][NextDedup]_vars

-----------------------------------------------------------------------------
(* Properties of semantic_deduplication *)

Survivors == (1..Len(dedup_moments)) \ removed_indices

DedupDone == dpc = "done" /\ embeddings # None

Similar(i, j) == SimilarityExceeds(embeddings[1][i], embeddings[1][j], threshold)

RECURSIVE SurvivorsUpTo(_)
SurvivorsUpTo(n) ==
    IF n = 0 THEN <<>>
    ELSE IF n \in removed_indices THEN SurvivorsUpTo(n - 1)
    ELSE Append(SurvivorsUpTo(n - 1), dedup_moments[n])

IsChain ==
    /\ Len(dedup_moments) = 3
    /\ Similar(1, 2) /\ Similar(2, 3) /\ ~Similar(1, 3)

\* C11: a candidate is removed only when its similarity to an earlier
\* candidate that is itself kept exceeds the threshold; the output holds
\* the candidates that were not removed, in input order; and for a chain
\* A, B, C with sim(A,B) > t, sim(B,C) > t, sim(A,C) <= t the survivors
\* are A and C.
C11_RemovedOnlyByKept ==
    /\ embeddings # None =>
         \A j \in removed_indices :
            \E i \in 1..(j - 1) : i \notin removed_indices /\ Similar(i, j)
    /\ DedupDone =>
         /\ dedup_unique = SurvivorsUpTo(Len(dedup_moments))
         /\ \A d \in 1..Len(dedup_decisions) :
               /\ dedup_decisions[d].kept_index \notin removed_indices
               /\ dedup_decisions[d].removed_index \in removed_indices
         /\ IsChain =>
              /\ removed_indices = {2}
              /\ dedup_unique = <<dedup_moments[1], dedup_moments[3]>>

C11_WitnessChain ==
    /\ DedupDone
    /\ IsChain
    /\ dedup_unique = <<dedup_moments[1], dedup_moments[3]>>

Identical(i, j) ==
    /\ embeddings[1][i] = embeddings[1][j]
    /\ NormSq(embeddings[1][i]) > 0

\* C12: of two candidates with identical embeddings (cosine similarity 1)
\* the later one is never in the output, for any threshold below 1; the
\* earlier one is in the output unless a kept candidate before it removed
\* it; when the input is these two candidates, exactly the earlier one
\* is the output.
C12_IdenticalKeepsEarlier ==
    (DedupDone /\ threshold < 100) =>
        \A i \in 1..Len(dedup_moments) : \A j \in (i + 1)..Len(dedup_moments) :
            Identical(i, j) =>
                /\ j \in removed_indices
                /\ i \in removed_indices <=>
                      \E k \in 1..(i - 1) :
                          k \notin removed_indices /\ Similar(k, i)
                /\ Len(dedup_moments) = 2 => dedup_unique = <<dedup_moments[1]>>

C12_WitnessIdenticalPair ==
    /\ DedupDone
    /\ threshold = SEMANTIC_SIMILARITY_THRESHOLD
    /\ Len(dedup_moments) = 2
    /\ Identical(1, 2)
    /\ dedup_unique = <<dedup_moments[1]>>

-----------------------------------------------------------------------------
(* global_reranking *)

\* most candidates handed to global_reranking
MaxRerank == 3

\* most entries of a ranked_moments list in a response
MaxRanked == 2

\* max_retries=3, the default of the parameter
MAX_RETRIES == 3

\* m.get('viral_score', 7.0), in tenths
Score(m) == IF "viral_score" \in DOMAIN m THEN m.viral_score ELSE 70

\* insertion of m, the next input element, keeping ascending order
InsertAsc(s, m) ==
    LET k == Cardinality({ i \in 1..Len(s) : Score(s[i]) <= Score(m) })
    IN  SubSeq(s, 1, k) \o <<m>> \o SubSeq(s, k + 1, Len(s))

\* insertion of m, the next input element, into a list sorted by score
\* descending: after every element whose score is not smaller (stable)
InsertDesc(s, m) ==
    LET k == Cardinality({ i \in 1..Len(s) : Score(s[i]) >= Score(m) })
    IN  SubSeq(s, 1, k) \o <<m>> \o SubSeq(s, k + 1, Len(s))

RECURSIVE SortedAscTo(_, _)
SortedAscTo(ms, n) ==
    IF n = 0 THEN <<>> ELSE InsertAsc(SortedAscTo(ms, n - 1), ms[n])

RECURSIVE SortedDescTo(_, _)
SortedDescTo(ms, n) ==
    IF n = 0 THEN <<>> ELSE InsertDesc(SortedDescTo(ms, n - 1), ms[n])

\* the sort without reverse=True
FallbackOrderAscending(ms) == SortedAscTo(ms, Len(ms))

\* sorted(moments, key=lambda m: m.get('viral_score', 7.0), reverse=True)
FallbackOrder(ms) == SortedDescTo(ms, Len(ms))

\* lines 543-551: the moments named by the ranked list, in its order, with
\* the new fields; original_index is 0-based and entries out of range are
\* passed over
RECURSIVE Reranked(_, _, _)
Reranked(ms, ranked, n) ==
    IF n = 0 THEN <<>>
    ELSE LET before == Reranked(ms, ranked, n - 1)
             idx    == ranked[n].original_index
         IN  IF 0 <= idx /\ idx < Len(ms)
             THEN LET m == ms[idx + 1]
                  IN  Append(before,
                        [ initial_score  |-> Score(m),
                          final_score    |-> IF "final_score" \in DOMAIN ranked[n]
                                             THEN ranked[n].final_score
                                             ELSE Score(m),
                          ranking_reason |-> IF "ranking_reason" \in DOMAIN ranked[n]
                                             THEN ranked[n].ranking_reason
                                             ELSE <<>>,
                          global_ranking |-> Len(before) + 1 ] @@ m)
             ELSE before

\* an entry of a ranked_moments list
RankInfos(n) ==
    [ original_index : -1..n ] \cup [ original_index : -1..n, final_score : {95} ]

\* the ranked_moments lists that a response may carry for n candidates
RankedLists(n) == UNION { [1..k -> RankInfos(n)] : k \in 0..MaxRanked }

\* what a request can meet: status 429; another status that is not 200;
\* an exception (a timeout, a body that is not JSON, a content that is not
\* JSON or not an object, a ranked_moments that is not a list of objects
\* with an integer original_index); a JSON object without ranked_moments;
\* a JSON object with a ranked_moments list
Outcomes(n) ==
    { [kind |-> k] : k \in {"rate_limit", "http_error", "exception", "no_ranked_moments"} }
    \cup { [kind |-> "ranked", ranked_moments |-> r] : r \in RankedLists(n) }

\* lines 463-464 and the entry of the retry loop
RerankBegin ==
    /\ rpc = "start"
    /\ IF rerank_moments = <<>>
       THEN rpc' = "done"
       ELSE rpc' = "attempt"
    /\ UNCHANGED <<rerank_moments, max_retries, attempt, rerank_outcomes,
                   rerank_sleeps, rerank_result>>
    /\ UNCHANGED <<chunkVars, locatorVars, consolidateVars, dedupVars, runVars, parseVars, sectionVars>>

\* lines 503-562: one pass of the retry loop, one request
RerankAttempt ==
    /\ rpc = "attempt"
    /\ attempt < max_retries
    /\ \E o \in Outcomes(Len(rerank_moments)) :
         /\ rerank_outcomes' = Append(rerank_outcomes, o.kind)
         /\ IF o.kind \in {"rate_limit", "exception"}
            THEN IF attempt < max_retries - 1
                 THEN /\ rerank_sleeps' = rerank_sleeps + 1
                      /\ attempt' = attempt + 1
                      /\ UNCHANGED <<rerank_result, rpc>>
                 ELSE /\ rerank_result' = FallbackOrder(rerank_moments)
                      /\ rpc' = "done"
                      /\ UNCHANGED <<attempt, rerank_sleeps>>
            ELSE /\ rerank_result' =
                      IF o.kind = "http_error"
                      THEN FallbackOrder(rerank_moments)
                      ELSE IF o.kind = "no_ranked_moments"
                      THEN Reranked(rerank_moments, <<>>, 0)
                      ELSE Reranked(rerank_moments, o.ranked_moments,
                                    Len(o.ranked_moments))
                 /\ rpc' = "done"
                 /\ UNCHANGED <<attempt, rerank_sleeps>>
    /\ UNCHANGED <<rerank_moments, max_retries>>
    /\ UNCHANGED <<chunkVars, locatorVars, consolidateVars, dedupVars, runVars, parseVars, sectionVars>>

\* line 564: the loop ended without a return (max_retries is 0)
RerankLoopOver ==
    /\ rpc = "attempt"
    /\ attempt >= max_retries
    /\ rerank_result' = rerank_moments
    /\ rpc' = "done"
    /\ UNCHANGED <<rerank_moments, max_retries, attempt, rerank_outcomes,
                   rerank_sleeps>>
    /\ UNCHANGED <<chunkVars, locatorVars, consolidateVars, dedupVars, runVars, parseVars, sectionVars>>

\* the k-th candidate, with a score in tenths or without one
RerankCandidates(k) ==
    { [quote |-> <<"q", ToString(k)>>] }
    \cup { [quote |-> <<"q", ToString(k)>>, viral_score |-> v] : v \in {70, 90} }

InitRerank ==
    /\ \E n \in 0..MaxRerank :
         \E ms \in [1..n -> UNION { RerankCandidates(k) : k \in 1..MaxRerank }] :
            /\ \A k \in 1..n : ms[k] \in RerankCandidates(k)
            /\ rerank_moments = ms
    /\ max_retries \in 0..MAX_RETRIES
    /\ attempt = 0
    /\ rerank_outcomes = <<>>
    /\ rerank_sleeps = 0
    /\ rerank_result = <<>>
    /\ rpc = "start"
    /\ ChunkIdle /\ LocatorIdle /\ ConsolidateIdle /\ DedupIdle /\ RunIdle
    /\ ParseIdle /\ SectionIdle

NextRerank == RerankBegin \/ RerankAttempt \/ RerankLoopOver

SpecRerank == InitRerank /\ [][NextRerank]_vars

-----------------------------------------------------------------------------
(* Properties of global_reranking *)

\* the result holds every input candidate exactly once, unchanged
IsPermutationOfInput ==
    /\ Len(rerank_result) = Len(rerank_moments)
    /\ \A k \in 1..Len(rerank_moments) :
          Cardinality({ i \in 1..Len(rerank_result) :
                          rerank_result[i] = rerank_moments[k] }) = 1

\* scores do not increase along the result
IsScoreDescending ==
    \A i \in 1..(Len(rerank_result) - 1) :
        Score(rerank_result[i]) >= Score(rerank_result[i + 1])

AllAttemptsFailed ==
    /\ rpc = "done"
    /\ max_retries >= 1
    /\ Len(rerank_outcomes) = max_retries
    /\ \A k \in 1..Len(rerank_outcomes) :
          rerank_outcomes[k] \in {"rate_limit", "exception"}

\* C13: when every one of the max_retries requests fails (an exception or
\* a rate-limit response each time), global_reranking returns all of its
\* input candidates, each exactly once, ordered by viral_score descending,
\* and it slept only between the attempts.
C13_FallbackSortAfterRetries ==
    AllAttemptsFailed =>
        /\ IsPermutationOfInput
        /\ IsScoreDescending
        /\ rerank_sleeps = max_retries - 1

C13_WitnessThreeFailures ==
    /\ AllAttemptsFailed
    /\ max_retries = MAX_RETRIES
    /\ Len(rerank_moments) = 3
    /\ Score(rerank_moments[1]) < Score(rerank_moments[3])
    /\ rerank_result[1] = rerank_moments[3]

\* the request that ended the call met a failure of the ranking call
EndedInFailure ==
    /\ rpc = "done"
    /\ rerank_outcomes # <<>>
    /\ rerank_outcomes[Len(rerank_outcomes)] \in
          {"rate_limit", "http_error", "exception", "no_ranked_moments"}

\* C14: for every kind of ranking failure (rate limit, exhausted retries,
\* a status that is not 200, a malformed response, a JSON body without a
\* ranked_moments list) global_reranking returns all input candidates,
\* sorted by viral_score descending, never fewer.
C14_FallbackOnEveryFailure ==
    EndedInFailure => IsPermutationOfInput /\ IsScoreDescending

-----------------------------------------------------------------------------
(* extract_moments_v2: the run over the chunks, with the retry loop of     *)
(* extract_moments_from_chunk                                              *)

\* most chunks of a run
MaxRunChunks == 2

\* the recording of a run with n chunks: contiguous captions of 100 s
RunCaptions(n) ==
    [ k \in 1..(2 * n + 1) |->
        [ start |-> Sec(100) * (k - 1), end |-> Sec(100) * k,
          text  |-> IF k % 2 = 1 THEN <<"a">> ELSE <<"b">> ] ]

\* what chunk_with_overlap(captions, 300, 100) returns for that recording
RunChunks(n) ==
    [ k \in 1..n |->
        ChunkMetadata(RunCaptions(n), k - 1, Sec(200) * (k - 1),
                      IF k = n THEN MaxTime(RunCaptions(n))
                      ELSE Sec(200) * (k - 1) + Sec(300),
                      Sec(100)) ]

\* the moments lists a response may carry; the last holds a moment
\* without 'quote'
ResponseMoments ==
    { <<>>,
      << [quote |-> <<"b">>, viral_score |-> 90], [quote |-> <<"z">>, viral_score |-> 70] >>,
      << [quote |-> <<"a">>, viral_score |-> 80], [viral_score |-> 70] >> }

\* what a request of extract_moments_from_chunk can meet: status 429; a
\* 5xx status; another status that is not 200; an exception (a timeout, a
\* body or a content that is not JSON); a JSON object with moments
ExtractOutcomes ==
    { [kind |-> k] : k \in {"rate_limit", "server_error", "client_error", "exception"} }
    \cup { [kind |-> "ok", moments |-> ms] : ms \in ResponseMoments }

\* the mutated test: a sleep follows every failed attempt
SleepsBeforeRetryAlways(a, retries) == a < retries

\* lines 300 and 341: attempt < max_retries - 1
SleepsBeforeRetry(a, retries) == a < retries - 1

\* the mutated test: the delay follows every chunk
DelayAfterChunkAlways(i, n) == i <= n

\* line 674: if i < len(chunks)
DelayAfterChunk(i, n) == i < n

\* the mutated loop: it ends after the first chunk
MoreChunksNever(i, n) == i < 1

\* line 648: the for loop has a next chunk
MoreChunks(i, n) == i < n

Ev(kind) == [ev |-> kind, chunk |-> chunk_i]

Ph(name) == [phase |-> name, chunk |-> 0]

\* lines 657-676 after extract_moments_from_chunk returned ms for chunk i,
\* and the head of the loop or line 678 after it
FinishChunk(ms, evs) ==
    LET n        == Len(run_chunks)
        metadata == run_chunks[chunk_i]
        returned == Append(evs, [ev |-> "return", chunk |-> chunk_i, count |-> Len(ms)])
        delayed  == IF DelayAfterChunk(chunk_i, n)
                    THEN Append(returned, Ev("delay")) ELSE returned
    IN  /\ all_moments' = all_moments \o ms
        /\ chunks_metadata' =
              Append(chunks_metadata,
                     [ chunk_id          |-> metadata.chunk_id,
                       start_time        |-> metadata.start_time,
                       end_time          |-> metadata.end_time,
                       duration          |-> metadata.duration,
                       caption_count     |-> metadata.caption_count,
                       moments_extracted |-> Len(ms),
                       has_overlap       |-> metadata.overlap_with_next # None ])
        /\ events' = delayed
        /\ run_attempt' = 0
        /\ run_moments' = <<>>
        /\ IF MoreChunks(chunk_i, n)
           THEN /\ chunk_i' = chunk_i + 1
                /\ upc' = "extract"
                /\ phase_trace' = Append(phase_trace,
                                         [phase |-> "EXTRACTING", chunk |-> chunk_i + 1])
           ELSE /\ upc' = "consolidate"
                /\ phase_trace' = Append(phase_trace, Ph("CONSOLIDATING"))
                /\ UNCHANGED chunk_i

\* lines 299-307 and 340-347: a rate-limit response or an exception, at
\* position `reentered` of the chunk's phases
RetryOrGiveUp(evs, reentered) ==
    IF SleepsBeforeRetry(run_attempt, MAX_RETRIES)
    THEN /\ events' = Append(evs, Ev("backoff"))
         /\ run_attempt' = run_attempt + 1
         /\ run_moments' = <<>>
         /\ upc' = "extract"
         /\ phase_trace' = IF reentered
                           THEN Append(phase_trace,
                                       [phase |-> "EXTRACTING", chunk |-> chunk_i])
                           ELSE phase_trace
         /\ UNCHANGED <<chunk_i, all_moments, chunks_metadata>>
    ELSE FinishChunk(<<>>, evs)

\* lines 620-625: the download of the transcript
RunDownload ==
    /\ upc = "download"
    /\ \/ /\ upc' = "parse"
          /\ phase_trace' = Append(phase_trace, Ph("PARSING"))
       \/ /\ upc' = "failed"
          /\ UNCHANGED phase_trace
    /\ UNCHANGED <<run_chunks, chunk_i, run_attempt, run_moments, all_moments,
                   chunks_metadata, events>>
    /\ UNCHANGED <<chunkVars, locatorVars, consolidateVars, dedupVars, rerankVars, parseVars, sectionVars>>

\* lines 628-634 and 640-642: the parse, which may raise
RunParse ==
    /\ upc = "parse"
    /\ \/ /\ upc' = "chunk"
          /\ phase_trace' = Append(phase_trace, Ph("CHUNKING"))
       \/ /\ upc' = "failed"
          /\ UNCHANGED phase_trace
    /\ UNCHANGED <<run_chunks, chunk_i, run_attempt, run_moments, all_moments,
                   chunks_metadata, events>>
    /\ UNCHANGED <<chunkVars, locatorVars, consolidateVars, dedupVars, rerankVars, parseVars, sectionVars>>

\* lines 636-648: the chunks of the recording, and the head of the loop
RunChunk ==
    /\ upc = "chunk"
    /\ \E n \in 0..MaxRunChunks :
         /\ run_chunks' = RunChunks(n)
         /\ IF n > 0
            THEN /\ chunk_i' = 1
                 /\ upc' = "extract"
                 /\ phase_trace' = Append(phase_trace,
                                          [phase |-> "EXTRACTING", chunk |-> 1])
            ELSE /\ upc' = "consolidate"
                 /\ phase_trace' = Append(phase_trace, Ph("CONSOLIDATING"))
                 /\ UNCHANGED chunk_i
    /\ UNCHANGED <<run_attempt, run_moments, all_moments, chunks_metadata, events>>
    /\ UNCHANGED <<chunkVars, locatorVars, consolidateVars, dedupVars, rerankVars, parseVars, sectionVars>>

\* lines 279-315 and 340-347: one attempt, one request
RunRequest ==
    /\ upc = "extract"
    /\ run_attempt < MAX_RETRIES
    /\ \E o \in ExtractOutcomes :
         LET evs == Append(events, [ev |-> "request", chunk |-> chunk_i,
                                    outcome |-> o.kind])
         IN  IF o.kind \in {"rate_limit", "exception"}
             THEN RetryOrGiveUp(evs, FALSE)
             ELSE IF o.kind \in {"server_error", "client_error"}
             THEN FinishChunk(<<>>, evs)
             ELSE /\ run_moments' = o.moments
                  /\ events' = evs
                  /\ upc' = "resolve"
                  /\ phase_trace' = Append(phase_trace,
                                           [phase |-> "TIMESTAMP_RESOLVING",
                                            chunk |-> chunk_i])
                  /\ UNCHANGED <<chunk_i, run_attempt, all_moments, chunks_metadata>>
    /\ UNCHANGED run_chunks
    /\ UNCHANGED <<chunkVars, locatorVars, consolidateVars, dedupVars, rerankVars, parseVars, sectionVars>>

\* lines 317-338 and 340-347: the timestamps of the response's moments; a
\* moment without 'quote' raises KeyError inside the try
RunResolve ==
    /\ upc = "resolve"
    /\ IF \A k \in 1..Len(run_moments) : "quote" \in DOMAIN run_moments[k]
       THEN FinishChunk([ k \in 1..Len(run_moments) |->
                            EnrichedFields(run_moments[k], run_chunks[chunk_i])
                            @@ run_moments[k] ],
                        events)
       ELSE RetryOrGiveUp(events, TRUE)
    /\ UNCHANGED run_chunks
    /\ UNCHANGED <<chunkVars, locatorVars, consolidateVars, dedupVars, rerankVars, parseVars, sectionVars>>

\* lines 680-695: consolidate_moments and the output document
RunConsolidate ==
    /\ upc = "consolidate"
    /\ upc' = "upload"
    /\ UNCHANGED <<run_chunks, chunk_i, run_attempt, run_moments, all_moments,
                   chunks_metadata, events, phase_trace>>
    /\ UNCHANGED <<chunkVars, locatorVars, consolidateVars, dedupVars, rerankVars, parseVars, sectionVars>>

\* lines 697-715: the upload, return True or return False
RunUpload ==
    /\ upc = "upload"
    /\ \/ /\ upc' = "done"
          /\ phase_trace' = Append(phase_trace, Ph("DONE"))
       \/ /\ upc' = "failed"
          /\ UNCHANGED phase_trace
    /\ UNCHANGED <<run_chunks, chunk_i, run_attempt, run_moments, all_moments,
                   chunks_metadata, events>>
    /\ UNCHANGED <<chunkVars, locatorVars, consolidateVars, dedupVars, rerankVars, parseVars, sectionVars>>

InitRun ==
    /\ run_chunks = <<>> /\ chunk_i = 0 /\ run_attempt = 0
    /\ run_moments = <<>> /\ all_moments = <<>> /\ chunks_metadata = <<>>
    /\ events = <<>> /\ phase_trace = <<>>
    /\ upc = "download"
    /\ ChunkIdle /\ LocatorIdle /\ ConsolidateIdle /\ DedupIdle /\ RerankIdle
    /\ ParseIdle /\ SectionIdle

NextRun ==
    \/ RunDownload \/ RunParse \/ RunChunk \/ RunRequest \/ RunResolve
    \/ RunConsolidate \/ RunUpload

SpecRun == InitRun /\ [][NextRun]_vars

-----------------------------------------------------------------------------
(* Properties of the run *)

EventIndices == 1..Len(events)

Requests(c) ==
    { k \in EventIndices : events[k].ev = "request" /\ events[k].chunk = c }

RequestsUpTo(c, k) == { j \in Requests(c) : j <= k }

Returns(c) ==
    { k \in EventIndices : events[k].ev = "return" /\ events[k].chunk = c }

LastRequest(c) == CHOOSE k \in Requests(c) : \A j \in Requests(c) : j <= k

\* every chunk of the run has been given back to the loop of line 648
AllChunksReturned == \A c \in 1..Len(run_chunks) : Returns(c) # {}

\* C15: extract_moments_from_chunk issues at most max_retries (3) requests
\* for a chunk; a sleep comes only after a request that was not the last
\* permitted one and is followed by the next request for the same chunk; a
\* chunk whose last request did not succeed returns an empty list; and the
\* run continues, so that consolidation starts only after every chunk has
\* returned.
C15_BoundedAttemptsNonFatal ==
    /\ \A c \in 1..Len(run_chunks) :
          /\ Cardinality(Requests(c)) <= MAX_RETRIES
          /\ Cardinality(Returns(c)) <= 1
          /\ \A k \in Returns(c) :
                /\ Requests(c) # {}
                /\ events[LastRequest(c)].outcome # "ok" => events[k].count = 0
    /\ \A k \in EventIndices :
          events[k].ev = "backoff" =>
              /\ k > 1 /\ events[k - 1].ev = "request"
              /\ Cardinality(RequestsUpTo(events[k].chunk, k)) < MAX_RETRIES
              /\ k < Len(events) =>
                    /\ events[k + 1].ev = "request"
                    /\ events[k + 1].chunk = events[k].chunk
    /\ upc \in {"consolidate", "upload", "done"} =>
          /\ AllChunksReturned
          /\ Len(chunks_metadata) = Len(run_chunks)
    /\ upc = "failed" => (events = <<>> \/ AllChunksReturned)

C15_WitnessExhaustedThenNext ==
    /\ Len(run_chunks) = 2
    /\ Cardinality(Requests(1)) = MAX_RETRIES
    /\ \A k \in Requests(1) : events[k].outcome \in {"rate_limit", "exception"}
    /\ \E k \in Returns(1) : events[k].count = 0
    /\ Requests(2) # {}
    /\ upc = "done"

\* C16: a 5xx response met before the last permitted attempt is retried:
\* it is followed by a backoff sleep (and then by another request), not by
\* the chunk being given up.
C16_ServerErrorRetried ==
    \A k \in EventIndices :
        ( /\ events[k].ev = "request"
          /\ events[k].outcome = "server_error"
          /\ Cardinality(RequestsUpTo(events[k].chunk, k)) < MAX_RETRIES
          /\ k < Len(events) )
        => events[k + 1].ev = "backoff"

RECURSIVE ReturnedCount(_)
ReturnedCount(k) ==
    IF k = 0 THEN 0
    ELSE ReturnedCount(k - 1)
         + (IF events[k].ev = "return" THEN events[k].count ELSE 0)

\* C17: the events of a run are in chunk order; a request for a chunk is
\* issued only after the chunk before it has returned; the candidates are
\* accumulated in chunk order; and the fixed delay comes right after the
\* return of every chunk but the last, before the next chunk's first
\* request, and never after the last chunk.
C17_SequentialInOrder ==
    /\ \A k \in 1..(Len(events) - 1) : events[k].chunk <= events[k + 1].chunk
    /\ \A k \in EventIndices :
          /\ (events[k].ev = "request" /\ events[k].chunk > 1) =>
                \E j \in 1..(k - 1) :
                    events[j].ev = "return" /\ events[j].chunk = events[k].chunk - 1
          /\ (events[k].ev = "return" /\ events[k].chunk < Len(run_chunks)) =>
                /\ k < Len(events)
                /\ events[k + 1].ev = "delay"
                /\ events[k + 1].chunk = events[k].chunk
          /\ (events[k].ev = "return" /\ events[k].chunk = Len(run_chunks)) =>
                k = Len(events)
          /\ events[k].ev = "delay" =>
                /\ k > 1 /\ events[k - 1].ev = "return"
                /\ events[k].chunk < Len(run_chunks)
                /\ k < Len(events) =>
                      /\ events[k + 1].ev = "request"
                      /\ events[k + 1].chunk = events[k].chunk + 1
    /\ Len(all_moments) = ReturnedCount(Len(events))
    /\ \A a \in 1..Len(all_moments) : \A b \in (a + 1)..Len(all_moments) :
          all_moments[a].source_chunk_id <= all_moments[b].source_chunk_id

C17_WitnessTwoChunks ==
    /\ upc = "consolidate"
    /\ Len(run_chunks) = 2
    /\ \E a, b \in 1..Len(all_moments) :
          /\ a < b
          /\ all_moments[a].source_chunk_id = run_chunks[1].chunk_id
          /\ all_moments[b].source_chunk_id = run_chunks[2].chunk_id
    /\ Cardinality({ k \in EventIndices : events[k].ev = "delay" }) = 1

PhaseIndices == 1..Len(phase_trace)

PhaseRank(name) ==
    CASE name = "PARSING"             -> 1
      [] name = "CHUNKING"            -> 2
      [] name = "EXTRACTING"          -> 3
      [] name = "TIMESTAMP_RESOLVING" -> 4
      [] name = "CONSOLIDATING"       -> 5
      [] name = "DONE"                -> 6

Entries(name) == { k \in PhaseIndices : phase_trace[k].phase = name }

\* C18 as claimed: the phases are entered in the order PARSING, CHUNKING,
\* EXTRACTING, TIMESTAMP_RESOLVING, CONSOLIDATING, DONE, no earlier phase
\* is entered after a later one, and only EXTRACTING is entered more than
\* once.
C18_PhasesInOrder ==
    /\ \A k \in 1..(Len(phase_trace) - 1) :
          PhaseRank(phase_trace[k].phase) <= PhaseRank(phase_trace[k + 1].phase)
    /\ \A name \in {"PARSING", "CHUNKING", "TIMESTAMP_RESOLVING",
                    "CONSOLIDATING", "DONE"} :
          Cardinality(Entries(name)) <= 1

\* the rank of a phase when the two per-chunk phases count as one stage
StageRank(name) ==
    IF name = "TIMESTAMP_RESOLVING" THEN 3
    ELSE IF PhaseRank(name) > 4 THEN PhaseRank(name) - 1
    ELSE PhaseRank(name)

\* C18, amended: PARSING, CHUNKING, the per-chunk stage, CONSOLIDATING and
\* DONE are entered in that order and no earlier one after a later one;
\* PARSING, CHUNKING, CONSOLIDATING and DONE are entered at most once;
\* inside the per-chunk stage EXTRACTING and TIMESTAMP_RESOLVING alternate:
\* every TIMESTAMP_RESOLVING directly follows an EXTRACTING of the same
\* chunk, each is entered at most max_retries times per chunk, the chunks
\* come in index order and all of them before CONSOLIDATING.
C18_PhasesPerChunk ==
    /\ phase_trace # <<>> => phase_trace[1].phase = "PARSING"
    /\ \A k \in 1..(Len(phase_trace) - 1) :
          LET a == StageRank(phase_trace[k].phase)
              b == StageRank(phase_trace[k + 1].phase)
          IN  /\ a <= b
              /\ b <= a + 1 \/ (a = 2 /\ b = 4 /\ run_chunks = <<>>)
              /\ (a = 3 /\ b = 3) =>
                    /\ phase_trace[k].chunk <= phase_trace[k + 1].chunk
                    /\ phase_trace[k + 1].chunk <= phase_trace[k].chunk + 1
              /\ (a = 2 /\ b = 3) =>
                    /\ phase_trace[k + 1].phase = "EXTRACTING"
                    /\ phase_trace[k + 1].chunk = 1
    /\ \A name \in {"PARSING", "CHUNKING", "CONSOLIDATING", "DONE"} :
          Cardinality(Entries(name)) <= 1
    /\ \A k \in Entries("TIMESTAMP_RESOLVING") :
          /\ k > 1
          /\ phase_trace[k - 1].phase = "EXTRACTING"
          /\ phase_trace[k - 1].chunk = phase_trace[k].chunk
    /\ \A c \in 1..Len(run_chunks) :
          \A name \in {"EXTRACTING", "TIMESTAMP_RESOLVING"} :
             Cardinality({ k \in Entries(name) : phase_trace[k].chunk = c })
                <= MAX_RETRIES
    /\ Entries("CONSOLIDATING") # {} =>
          \A c \in 1..Len(run_chunks) :
             \E k \in Entries("EXTRACTING") : phase_trace[k].chunk = c

C18_WitnessInterleaved ==
    /\ upc = "done"
    /\ \E k \in PhaseIndices :
          /\ k + 5 = Len(phase_trace)
          /\ phase_trace[k] = [phase |-> "EXTRACTING", chunk |-> 1]
          /\ phase_trace[k + 1] = [phase |-> "TIMESTAMP_RESOLVING", chunk |-> 1]
          /\ phase_trace[k + 2] = [phase |-> "EXTRACTING", chunk |-> 2]
          /\ phase_trace[k + 3] = [phase |-> "TIMESTAMP_RESOLVING", chunk |-> 2]
          /\ phase_trace[k + 4].phase = "CONSOLIDATING"
          /\ phase_trace[k + 5].phase = "DONE"

-----------------------------------------------------------------------------
(* Properties of the captions stored in a chunk *)

StartsIn(ch) ==
    { k \in 1..Len(captions) :
        ch.start_time <= captions[k].start /\ captions[k].start < ch.end_time }

\* the j-th smallest element of a set of indices
NthOf(S, j) == CHOOSE k \in S : Cardinality({ i \in S : i <= k }) = j

-----------------------------------------------------------------------------
(* parse_timestamp on the text of a VTT file, parse_vtt_with_timestamps *)

\* most lines of a VTT file
MaxLines == 4

Arrow == <<"-", "-", ">">>

\* the position before the first occurrence of sep in s, or -1
FindFirst(sep, s) ==
    IF Contains(sep, s)
    THEN CHOOSE k \in 0..(Len(s) - Len(sep)) :
            /\ SubSeq(s, k + 1, k + Len(sep)) = sep
            /\ \A j \in 0..(k - 1) : SubSeq(s, j + 1, j + Len(sep)) # sep
    ELSE -1

\* str.split(sep)
RECURSIVE SplitOn(_, _)
SplitOn(sep, s) ==
    LET k == FindFirst(sep, s) IN
    IF k < 0 THEN <<s>>
    ELSE <<SubSeq(s, 1, k)>> \o SplitOn(sep, SubSeq(s, k + Len(sep) + 1, Len(s)))

Digits == <<"0", "1", "2", "3", "4", "5", "6", "7", "8", "9">>

IsDigit(c) == \E d \in 1..10 : Digits[d] = c

DigitValue(c) == (CHOOSE d \in 1..10 : Digits[d] = c) - 1

RECURSIVE DigitsValue(_)
DigitsValue(ds) ==
    IF ds = <<>> THEN 0
    ELSE DigitsValue(SubSeq(ds, 1, Len(ds) - 1)) * 10 + DigitValue(ds[Len(ds)])

\* float(s) accepts s: after strip() an optional sign, then digits with at
\* most one point and at least one digit (the texts of the model hold no
\* exponent, no underscore and no "inf" or "nan")
FloatOk(s) ==
    LET t    == Strip(s)
        body == IF t # <<>> /\ Head(t) \in {"-", "+"} THEN Tail(t) ELSE t
    IN  /\ \E k \in 1..Len(body) : IsDigit(body[k])
        /\ \A k \in 1..Len(body) : IsDigit(body[k]) \/ body[k] = "."
        /\ Cardinality({ k \in 1..Len(body) : body[k] = "." }) <= 1

\* float(s) in milliseconds, for a text with at most three decimals
FloatValue(s) ==
    LET t     == Strip(s)
        neg   == t # <<>> /\ Head(t) = "-"
        body  == IF t # <<>> /\ Head(t) \in {"-", "+"} THEN Tail(t) ELSE t
        parts == SplitOn(<<".">>, body)
        whole == DigitsValue(parts[1])
        frac  == IF Len(parts) > 1
                 THEN DigitsValue(SubSeq(parts[2] \o <<"0", "0", "0">>, 1, 3))
                 ELSE 0
    IN  (IF neg THEN -1 ELSE 1) * (whole * 1000 + frac)

\* lines 80-92 on the text of a timestamp: None when float() raises
\* ValueError, else the time in milliseconds
parse_timestamp_text(timestamp_str) ==
    LET parts == SplitOn(<<":">>, Strip(timestamp_str)) IN
    IF Len(parts) = 3
    THEN IF FloatOk(parts[1]) /\ FloatOk(parts[2]) /\ FloatOk(parts[3])
         THEN Some(FloatValue(parts[1]) * 3600 + FloatValue(parts[2]) * 60
                   + FloatValue(parts[3]))
         ELSE None
    ELSE IF Len(parts) = 2
    THEN IF FloatOk(parts[1]) /\ FloatOk(parts[2])
         THEN Some(FloatValue(parts[1]) * 60 + FloatValue(parts[2]))
         ELSE None
    ELSE Some(0)

\* line 118: the first index from j on that does not continue the text
RECURSIVE TextEnd(_, _)
TextEnd(lines, j) ==
    IF j <= Len(lines) /\ Strip(lines[j]) # <<>> /\ ~Contains(Arrow, lines[j])
    THEN TextEnd(lines, j + 1)
    ELSE j

\* lines 111-114 for the timestamp line `line`: the two times, or
\* raised when parse_timestamp raises ValueError or the text after the
\* arrow has no field (IndexError)
CueTimes(line) ==
    LET timestamp_parts == SplitOn(Arrow, line)
        start_time      == parse_timestamp_text(timestamp_parts[1])
        end_fields      == Split(Strip(timestamp_parts[2]))
    IN  IF start_time = None \/ end_fields = <<>>
        THEN [raised |-> TRUE]
        ELSE LET end_time == parse_timestamp_text(end_fields[1]) IN
             IF end_time = None
             THEN [raised |-> TRUE]
             ELSE [raised |-> FALSE, start |-> start_time[1], end |-> end_time[1]]

\* lines 107-126: one pass of the outer loop
ParseStep ==
    /\ ppc = "loop"
    /\ parse_i <= Len(vtt_lines)
    /\ LET line == Strip(vtt_lines[parse_i]) IN
       IF Contains(Arrow, line)
       THEN LET times == CueTimes(line) IN
            IF times.raised
            THEN /\ ppc' = "raised"
                 /\ UNCHANGED <<parse_i, parsed_captions>>
            ELSE LET stop == TextEnd(vtt_lines, parse_i + 1)
                     text == JoinSpace([k \in 1..(stop - parse_i - 1) |->
                                           Strip(vtt_lines[parse_i + k])])
                 IN  /\ parsed_captions' =
                           IF text # <<>>
                           THEN Append(parsed_captions,
                                       [start |-> times.start, end |-> times.end,
                                        text |-> text])
                           ELSE parsed_captions
                     /\ parse_i' = stop + 1
                     /\ UNCHANGED ppc
       ELSE /\ parse_i' = parse_i + 1
            /\ UNCHANGED <<parsed_captions, ppc>>
    /\ UNCHANGED vtt_lines
    /\ UNCHANGED <<chunkVars, locatorVars, consolidateVars, dedupVars, rerankVars, runVars, sectionVars>>

\* line 107 false, line 128
ParseReturn ==
    /\ ppc = "loop"
    /\ parse_i > Len(vtt_lines)
    /\ ppc' = "done"
    /\ UNCHANGED <<vtt_lines, parse_i, parsed_captions>>
    /\ UNCHANGED <<chunkVars, locatorVars, consolidateVars, dedupVars, rerankVars, runVars, sectionVars>>

\* timestamps: 1 s, 5.5 s, one field only, a field that is not a number
TsOneSecond == <<"0", ":", "0", "1">>

TsFiveAndHalf == <<"0", ":", "0", ":", "0", "5", ".", "5">>

TsOneField == <<"7">>

TsNotNumeric == <<"0", ":", "x">>

TsLine(a, b) == a \o <<" ">> \o Arrow \o <<" ">> \o b

\* the lines of a VTT file: blank, text, well-formed and malformed
\* timestamp lines, a timestamp line with cue settings
VttLines ==
    { <<>>, <<"h", "i">>,
      TsLine(TsOneSecond, TsFiveAndHalf),
      TsLine(TsOneSecond, TsFiveAndHalf \o <<" ", "x", ":", "y">>),
      TsLine(TsOneField, TsFiveAndHalf),
      TsLine(TsNotNumeric, TsFiveAndHalf),
      TsLine(TsOneSecond, TsNotNumeric),
      TsOneSecond \o <<" ">> \o Arrow }

InitParse ==
    /\ vtt_lines \in UNION { [1..n -> VttLines] : n \in 1..MaxLines }
    /\ parse_i = 1
    /\ parsed_captions = <<>>
    /\ ppc = "loop"
    /\ ChunkIdle /\ LocatorIdle /\ ConsolidateIdle /\ DedupIdle /\ RerankIdle
    /\ RunIdle /\ SectionIdle

NextParse == ParseStep \/ ParseReturn

SpecParse == InitParse /\ [][NextParse]_vars

-----------------------------------------------------------------------------
(* Properties of parse_vtt_with_timestamps *)

\* line k is a timestamp line whose two times are numbers, it starts a
\* block (it is the first line or follows a blank line) and a text line
\* follows it
WellFormedBlockAt(k) ==
    /\ Contains(Arrow, vtt_lines[k])
    /\ ~CueTimes(Strip(vtt_lines[k])).raised
    /\ k = 1 \/ Strip(vtt_lines[k - 1]) = <<>>
    /\ k < Len(vtt_lines)
    /\ Strip(vtt_lines[k + 1]) # <<>>
    /\ ~Contains(Arrow, vtt_lines[k + 1])

MalformedBlockAt(k) ==
    /\ Contains(Arrow, vtt_lines[k])
    /\ CueTimes(Strip(vtt_lines[k])).raised

\* C20: a malformed caption block never aborts the parse: the parser does
\* not raise, and when it returns, the captions of all well-formed blocks
\* are in its result.
C20_MalformedBlockSkipped ==
    /\ ppc # "raised"
    /\ ppc = "done" =>
          Len(parsed_captions) >=
             Cardinality({ k \in 1..Len(vtt_lines) : WellFormedBlockAt(k) })

-----------------------------------------------------------------------------
(* Properties of the chunker on short recordings *)

ShortRecording == captions # <<>> /\ MaxTime(captions) < chunk_duration

\* some caption starts before the end of the last caption
SomeCaptionStartsBeforeEnd ==
    \E k \in 1..Len(captions) : captions[k].start < MaxTime(captions)

\* C21 as claimed: zero chunks for an empty caption sequence, and exactly
\* one chunk, without overlap_with_next, whenever the last caption's end
\* is shorter than chunk_duration.
C21_ShortRecordingAlwaysOneChunk ==
    cpc = "done" =>
        /\ captions = <<>> => chunks = <<>>
        /\ ShortRecording =>
              Len(chunks) = 1 /\ chunks[1].overlap_with_next = None

\* C21, amended: zero chunks for an empty caption sequence; when the last
\* caption's end is shorter than chunk_duration, exactly one chunk, from 0
\* to that end and without overlap_with_next, if some caption starts
\* before that end, and zero chunks if none does.
C21_ShortRecordingOneChunk ==
    cpc = "done" =>
        /\ captions = <<>> => chunks = <<>>
        /\ (ShortRecording /\ SomeCaptionStartsBeforeEnd) =>
              /\ Len(chunks) = 1
              /\ chunks[1].overlap_with_next = None
              /\ chunks[1].start_time = 0
              /\ chunks[1].end_time = MaxTime(captions)
        /\ (ShortRecording /\ ~SomeCaptionStartsBeforeEnd) => chunks = <<>>

C21_WitnessShortRecording ==
    /\ cpc = "done"
    /\ ShortRecording
    /\ Len(captions) >= 2
    /\ Len(chunks) = 1
    /\ chunks[1].caption_count = Len(captions)

-----------------------------------------------------------------------------
(* consolidate_moments as a whole: the three stages and the statistics *)

\* most candidates handed to consolidate_moments as a whole
MaxPipeline == 2

\* m.get('final_score', m.get('viral_score', 7.0)), in tenths
FinalScore(m) == IF "final_score" \in DOMAIN m THEN m.final_score ELSE Score(m)

\* sum(m.get('viral_score', 7.0) for m in ms), over the first n
RECURSIVE SumScores(_, _)
SumScores(ms, n) == IF n = 0 THEN 0 ELSE Score(ms[n]) + SumScores(ms, n - 1)

\* sum(m.get('final_score', m.get('viral_score', 7.0)) for m in ms)
RECURSIVE SumFinalScores(_, _)
SumFinalScores(ms, n) ==
    IF n = 0 THEN 0 ELSE FinalScore(ms[n]) + SumFinalScores(ms, n - 1)

\* line 609: sum / len if the list is not empty else 0, in tenths, rounded down
AvgInitialScore(ms) ==
    IF ms # <<>> THEN SumScores(ms, Len(ms)) \div Len(ms) ELSE 0

\* line 610
AvgFinalScore(ms) ==
    IF ms # <<>> THEN SumFinalScores(ms, Len(ms)) \div Len(ms) ELSE 0

\* the mutated statistic: the default score of a moment for an empty list
TopMomentScoreDefault(final_moments) ==
    IF final_moments # <<>>
    THEN FinalScore(final_moments[1])
    ELSE 70

\* line 611: the score of the first final moment, 0 for an empty list
TopMomentScore(final_moments) ==
    IF final_moments # <<>>
    THEN IF "final_score" \in DOMAIN final_moments[1]
         THEN final_moments[1].final_score
         ELSE IF "viral_score" \in DOMAIN final_moments[1]
         THEN final_moments[1].viral_score
         ELSE 0
    ELSE 0

\* lines 604-612
ConsolidationStats(all_moments_in, dups, unique, semantically_unique, final_moments) ==
    [ total_candidates_extracted  |-> Len(all_moments_in),
      overlap_duplicates_removed  |-> dups,
      semantic_duplicates_removed |-> Len(unique) - Len(semantically_unique),
      final_moments_count         |-> Len(final_moments),
      avg_initial_score           |-> AvgInitialScore(all_moments_in),
      avg_final_score             |-> AvgFinalScore(final_moments),
      top_moment_score            |-> TopMomentScore(final_moments) ]

\* line 598: the call of semantic_deduplication(unique_moments)
CallSemanticDedup ==
    /\ kpc = "semantic"
    /\ dpc = "idle"
    /\ kpc' = "dedup"
    /\ dedup_moments' = unique_moments
    /\ threshold' = SEMANTIC_SIMILARITY_THRESHOLD
    /\ dpc' = "embed"
    /\ UNCHANGED <<embeddings, dedup_i, removed_indices, dedup_unique,
                   dedup_decisions, embedding_calls>>
    /\ UNCHANGED <<all_chunks_moments, unique_moments, overlap_duplicates,
                   consolidation_stats>>
    /\ UNCHANGED <<chunkVars, locatorVars, rerankVars, runVars, parseVars, sectionVars>>

\* line 601: the call of global_reranking(semantically_unique)
CallGlobalReranking ==
    /\ kpc = "dedup"
    /\ dpc = "done"
    /\ rpc = "idle"
    /\ kpc' = "rerank"
    /\ rerank_moments' = dedup_unique
    /\ max_retries' = MAX_RETRIES
    /\ rpc' = "start"
    /\ UNCHANGED <<attempt, rerank_outcomes, rerank_sleeps, rerank_result>>
    /\ UNCHANGED <<all_chunks_moments, unique_moments, overlap_duplicates,
                   consolidation_stats>>
    /\ UNCHANGED <<chunkVars, locatorVars, dedupVars, runVars, parseVars, sectionVars>>

\* lines 603-614: the statistics and the return
ConsolidateReturn ==
    /\ kpc = "rerank"
    /\ rpc = "done"
    /\ kpc' = "done"
    /\ consolidation_stats' =
          Some(ConsolidationStats(all_chunks_moments, overlap_duplicates,
                                  unique_moments, dedup_unique, rerank_result))
    /\ UNCHANGED <<all_chunks_moments, unique_moments, overlap_duplicates>>
    /\ UNCHANGED <<chunkVars, locatorVars, stageVars>>

\* candidates of the chunks: two share a quote key, scores in tenths
PipelineCandidates ==
    { [quote |-> <<"a">>, is_in_overlap_region |-> TRUE, viral_score |-> 90],
      [quote |-> <<" ", "A">>, is_in_overlap_region |-> FALSE, viral_score |-> 70],
      [quote |-> QuoteFixTheMRT, is_in_overlap_region |-> FALSE, viral_score |-> 80] }

InitPipeline ==
    /\ all_chunks_moments \in
          UNION { [1..n -> PipelineCandidates] : n \in 0..MaxPipeline }
    /\ unique_moments = <<>>
    /\ overlap_duplicates = 0
    /\ kpc = "overlap"
    /\ consolidation_stats = None
    /\ ChunkIdle /\ LocatorIdle /\ StagesIdle

NextPipeline ==
    \/ RemoveOverlapDuplicates
    \/ CallSemanticDedup \/ DedupBegin \/ DedupStep \/ DedupReturn
    \/ CallGlobalReranking \/ RerankBegin \/ RerankAttempt
    \/ ConsolidateReturn

SpecPipeline == InitPipeline /\ [][NextPipeline]_vars

-----------------------------------------------------------------------------
(* Properties of consolidate_moments as a whole *)

\* C22: on an empty candidate list consolidate_moments makes no external
\* call (no embedding request, no ranking request, no sleep), each of its
\* stages yields an empty list, the decision log is empty, the statistics
\* hold 0 in every count and average, and until it has returned it always
\* has a next step to take (it does not stop with an error).
C22_EmptyInputIsTotal ==
    all_chunks_moments = <<>> =>
        /\ kpc # "done" => ENABLED NextPipeline
        /\ embedding_calls = 0
        /\ rerank_outcomes = <<>> /\ rerank_sleeps = 0
        /\ unique_moments = <<>> /\ overlap_duplicates = 0
        /\ dedup_unique = <<>> /\ dedup_decisions = <<>>
        /\ rerank_result = <<>>
        /\ kpc = "done" =>
              consolidation_stats =
                 Some([ total_candidates_extracted  |-> 0,
                        overlap_duplicates_removed  |-> 0,
                        semantic_duplicates_removed |-> 0,
                        final_moments_count         |-> 0,
                        avg_initial_score           |-> 0,
                        avg_final_score             |-> 0,
                        top_moment_score            |-> 0 ])

C22_WitnessEmptyDone ==
    /\ all_chunks_moments = <<>>
    /\ kpc = "done"
    /\ dpc = "done" /\ rpc = "done"
    /\ consolidation_stats # None


-----------------------------------------------------------------------------
(* The overlap range and the start of the next chunk *)

\* the captions of the loop window that starts at cs
WindowCaptions(cs) ==
    FilterSeq(captions, cs, ActualEnd(captions, cs, chunk_duration))

\* C23 as stated: every non-final emitted chunk has the overlap range
\* [end_time - overlap_duration, end_time) and is followed by a chunk that
\* starts at end_time - overlap_duration; the final chunk ends at the total
\* duration and has no overlap field.
C23_OverlapExactNextEmitted ==
    /\ \A c \in 1..(Len(chunks) - 1) :
          /\ chunks[c].overlap_with_next =
                Some([start |-> chunks[c].end_time - overlap_duration,
                      end   |-> chunks[c].end_time])
          /\ chunks[c + 1].start_time = chunks[c].end_time - overlap_duration
    /\ cpc = "done" /\ chunks # <<>> =>
          /\ chunks[Len(chunks)].end_time = MaxTime(captions)
          /\ chunks[Len(chunks)].overlap_with_next = None

\* C23 (amended): a chunk that ends before the total duration has the
\* overlap range [max(0, end_time - overlap_duration), end_time), and the
\* loop window after it starts at end_time - overlap_duration: the next
\* emitted chunk starts there exactly when a caption starts in that window
\* (a window without one is skipped).  A chunk that ends at the total
\* duration is the last one and has no overlap field; the last emitted chunk
\* ends at the total duration exactly when it has no overlap field.
C23_OverlapAndNextWindow ==
    /\ \A c \in 1..Len(chunks) :
          IF chunks[c].end_time < MaxTime(captions)
          THEN chunks[c].overlap_with_next =
                  Some([start |-> Max(0, chunks[c].end_time - overlap_duration),
                        end   |-> chunks[c].end_time])
          ELSE /\ chunks[c].end_time = MaxTime(captions)
               /\ chunks[c].overlap_with_next = None
               /\ c = Len(chunks)
               /\ cpc = "done"
    /\ \A c \in 1..(Len(chunks) - 1) :
          LET next_start == chunks[c].end_time - overlap_duration IN
          chunks[c + 1].start_time = next_start <=> WindowCaptions(next_start) # <<>>

C23_WitnessOverlapThenNext ==
    /\ cpc = "done"
    /\ Len(chunks) >= 2
    /\ overlap_duration > 0
    /\ overlap_duration < chunk_duration
    /\ chunks[1].end_time > overlap_duration
    /\ chunks[2].start_time = chunks[1].end_time - overlap_duration
    /\ chunks[Len(chunks)].overlap_with_next = None


-----------------------------------------------------------------------------
(* The deduplication decisions *)

\* a recorded similarity is above t / 100
RecordedExceeds(sim, t) ==
    /\ sim.norms_sq > 0
    /\ sim.dot > 0
    /\ sim.dot * sim.dot * 10000 > t * t * sim.norms_sq

\* the similarity of candidates i and j is exactly t / 100
SimilarityEquals(i, j, t) ==
    LET sim == cosine_similarity(embeddings[1][i], embeddings[1][j]) IN
    /\ sim.norms_sq > 0
    /\ sim.dot >= 0
    /\ sim.dot * sim.dot * 10000 = t * t * sim.norms_sq

DecisionsRemoving(j) ==
    { d \in 1..Len(dedup_decisions) : dedup_decisions[d].removed_index = j }

\* C24: every removed candidate is recorded in exactly one decision and
\* the number of decisions is the number of removed candidates; in each
\* decision kept_index < removed_index, the kept candidate is not removed
\* and is in the output, and the recorded similarity (that of the two
\* candidates' embeddings) is strictly above the threshold; a pair whose
\* similarity equals the threshold has no decision.
C24_OneDecisionPerRemoval ==
    embeddings # None =>
        /\ \A j \in removed_indices : Cardinality(DecisionsRemoving(j)) = 1
        /\ Len(dedup_decisions) = Cardinality(removed_indices)
        /\ \A d \in 1..Len(dedup_decisions) :
              LET dec == dedup_decisions[d] IN
              /\ dec.kept_index < dec.removed_index
              /\ dec.removed_index \in removed_indices
              /\ dec.kept_index \notin removed_indices
              /\ \E k \in 1..Len(dedup_unique) :
                    dedup_unique[k] = dedup_moments[dec.kept_index]
              /\ dec.similarity =
                    cosine_similarity(embeddings[1][dec.kept_index],
                                      embeddings[1][dec.removed_index])
              /\ RecordedExceeds(dec.similarity, threshold)
        /\ \A i \in 1..Len(dedup_moments) : \A j \in (i + 1)..Len(dedup_moments) :
              SimilarityEquals(i, j, threshold) =>
                 ~ \E d \in 1..Len(dedup_decisions) :
                       /\ dedup_decisions[d].kept_index = i
                       /\ dedup_decisions[d].removed_index = j

C24_WitnessDecisionAndEquality ==
    /\ DedupDone
    /\ Len(dedup_moments) = 3
    /\ SimilarityEquals(1, 2, threshold)
    /\ removed_indices = {3}
    /\ Len(dedup_decisions) = 1
    /\ dedup_decisions[1].kept_index = 1


-----------------------------------------------------------------------------
(* extract_exact_timestamp, loop by loop *)

\* the mutated range: every window size up to the end of the chunk
LargestWindowUnbounded(n, i) == n - i + 1

\* line 222: range(1, min(11, len(chunk_captions) - i + 1)), i 0-based;
\* the largest window size tried from the 1-based start index i
LargestWindow(n, i) == Min(MaxWindowCaptions, n - i + 1)

\* lines 220-231: one test of the inner loop, or the end of the inner loop
ScanStep ==
    /\ tpc = "scan"
    /\ scan_i <= Len(chunk_metadata.captions)
    /\ LET caps == chunk_metadata.captions IN
       IF window_size > LargestWindow(Len(caps), scan_i)
       THEN /\ scan_i' = scan_i + 1
            /\ window_size' = 1
            /\ UNCHANGED <<tpc, scan_spans>>
       ELSE IF WindowMatches(NormalizedQuote(moment.quote),
                             WindowText(caps, scan_i, window_size))
       THEN /\ scan_spans' =
                 Append(scan_spans,
                        << format_timestamp(caps[scan_i].start),
                           format_timestamp(caps[scan_i + window_size - 1].end) >>)
            /\ tpc' = "scanned"
            /\ UNCHANGED <<scan_i, window_size>>
       ELSE /\ window_size' = window_size + 1
            /\ UNCHANGED <<tpc, scan_i, scan_spans>>
    /\ UNCHANGED <<chunk_metadata, moment>>
    /\ UNCHANGED <<chunkVars, consolidateVars, stageVars>>

\* lines 233-234: the outer loop is over, the chunk boundaries are returned
ScanFallback ==
    /\ tpc = "scan"
    /\ scan_i > Len(chunk_metadata.captions)
    /\ scan_spans' =
          Append(scan_spans,
                 << format_timestamp(chunk_metadata.start_time),
                    format_timestamp(chunk_metadata.start_time + Sec(60)) >>)
    /\ tpc' = "scanned"
    /\ UNCHANGED <<chunk_metadata, moment, scan_i, window_size>>
    /\ UNCHANGED <<chunkVars, consolidateVars, stageVars>>

\* the same quote is resolved against the same chunk a second time
ScanAgain ==
    /\ tpc = "scanned"
    /\ Len(scan_spans) < 2
    /\ tpc' = "scan"
    /\ scan_i' = 1
    /\ window_size' = 1
    /\ UNCHANGED <<chunk_metadata, moment, scan_spans>>
    /\ UNCHANGED <<chunkVars, consolidateVars, stageVars>>

\* a chunk of twelve captions: "x b", nine times "a", "b y", "a"
LongChunk ==
    [ chunk_id          |-> 0,
      start_time        |-> 0,
      overlap_with_next |-> None,
      captions          |-> [k \in 1..12 |->
                               [ start |-> CueBoundary("long", k),
                                 end   |-> CueBoundary("long", k + 1),
                                 text  |-> IF k = 1 THEN <<"x", " ", "b">>
                                           ELSE IF k = 11 THEN <<"b", " ", "y">>
                                           ELSE <<"a">> ]] ]

\* "b a a a a a a a a a b": held by captions 1 to 11 together
QuoteLong ==
    <<"b">> \o [k \in 1..18 |-> IF k % 2 = 1 THEN " " ELSE "a"] \o <<" ", "b">>

InitScan ==
    /\ \/ /\ chunk_metadata \in LocatorChunks
          /\ \E q \in Quotes : moment = [quote |-> q, viral_score |-> 8]
       \/ /\ chunk_metadata = MinisterChunk
          /\ moment = [quote |-> QuoteMinister, viral_score |-> 8]
       \/ /\ chunk_metadata = LongChunk
          /\ \E q \in {QuoteLong, <<"y">>, <<"B">>} :
                moment = [quote |-> q, viral_score |-> 8]
    /\ tpc = "scan"
    /\ scan_i = 1
    /\ window_size = 1
    /\ scan_spans = <<>>
    /\ ChunkIdle /\ ConsolidateIdle /\ StagesIdle

NextScan == ScanStep \/ ScanFallback \/ ScanAgain

SpecScan == InitScan /\ [][NextScan]_vars

-----------------------------------------------------------------------------
(* Properties of the scan *)

\* the window (i, size) is one the loops visit
IsWindow(i, size) ==
    /\ i \in 1..Len(chunk_metadata.captions)
    /\ size \in 1..MaxWindowCaptions
    /\ size <= Len(chunk_metadata.captions) - i + 1

WindowMatchesAt(i, size) ==
    WindowMatches(NormalizedQuote(moment.quote),
                  WindowText(chunk_metadata.captions, i, size))

\* the window (i, size) comes before (j, other) in the order of the loops
ScannedBefore(i, size, j, other) == i < j \/ (i = j /\ size < other)

-----------------------------------------------------------------------------
(* The result of a ranking response *)

\* the call ended with a response that carries a ranked_moments list
EndedRanked ==
    /\ rpc = "done"
    /\ rerank_outcomes # <<>>
    /\ rerank_outcomes[Len(rerank_outcomes)] = "ranked"

\* the positions of the result that hold the k-th input candidate
PositionsOf(k) ==
    { i \in 1..Len(rerank_result) :
        rerank_result[i].quote = rerank_moments[k].quote }

\* C26 as stated: whatever ranked_moments list the ranking response carries
\* (indices missing, repeated or out of range), the list returned by
\* global_reranking holds every input candidate exactly once, so its
\* length (final_moments_count) is the number of input candidates.
C26_RankedResultIsPermutation ==
    EndedRanked =>
        /\ Len(rerank_result) = Len(rerank_moments)
        /\ \A k \in 1..Len(rerank_moments) : Cardinality(PositionsOf(k)) = 1


-----------------------------------------------------------------------------
(* No caption is lost by the chunker *)

\* the emitted chunks that hold the k-th caption
ChunksHolding(k) ==
    { c \in 1..Len(chunks) :
        \E n \in 1..Len(chunks[c].captions) : chunks[c].captions[n] = captions[k] }

\* the start of the k-th caption lies in the overlap range of chunk c
InOverlapOf(c, k) ==
    /\ chunks[c].overlap_with_next # None
    /\ chunks[c].overlap_with_next[1].start <= captions[k].start
    /\ captions[k].start < chunks[c].overlap_with_next[1].end

\* C27: when chunk_with_overlap returns, every caption that starts before
\* the total duration is held by at least one emitted chunk; and a caption
\* held by two chunks starts inside the overlap_with_next range of the
\* earlier of the two.
C27_NoCaptionLost ==
    /\ cpc = "done" =>
          \A k \in 1..Len(captions) :
              captions[k].start < MaxTime(captions) => ChunksHolding(k) # {}
    /\ \A k \in 1..Len(captions) :
          \A c \in ChunksHolding(k) : \A d \in ChunksHolding(k) :
              c < d => InOverlapOf(c, k)

C27_WitnessSharedCaption ==
    /\ cpc = "done"
    /\ overlap_duration < chunk_duration
    /\ Len(captions) = 3
    /\ ChunksHolding(1) = {1}
    /\ ChunksHolding(2) = {1, 2}
    /\ ChunksHolding(3) = {2}


-----------------------------------------------------------------------------
(* The survivors of semantic_deduplication *)

\* the similarity of candidates i and j is above the threshold
AboveThreshold(i, j) ==
    RecordedExceeds(cosine_similarity(embeddings[1][i], embeddings[1][j]), threshold)

\* the input index of the p-th survivor
InputIndex(p) ==
    CHOOSE k \in 1..Len(dedup_moments) : dedup_moments[k] = dedup_unique[p]

\* C28: when the embeddings were obtained, no two candidates of the output
\* have a similarity above the threshold, the first input candidate is the
\* first of the output, and the output holds the candidates that were not
\* removed, in the order of the input.
C28_SurvivorsPairwiseDistinct ==
    DedupDone =>
        /\ \A i \in Survivors : \A j \in Survivors :
              i < j => ~AboveThreshold(i, j)
        /\ dedup_moments # <<>> =>
              /\ 1 \in Survivors
              /\ dedup_unique[1] = dedup_moments[1]
        /\ Len(dedup_unique) = Cardinality(Survivors)
        /\ \A p \in 1..Len(dedup_unique) :
              /\ InputIndex(p) \in Survivors
              /\ \A q \in (p + 1)..Len(dedup_unique) : InputIndex(p) < InputIndex(q)

C28_WitnessMiddleRemoved ==
    /\ DedupDone
    /\ Len(dedup_moments) = 3
    /\ removed_indices = {2}
    /\ AboveThreshold(1, 2)
    /\ AboveThreshold(2, 3)
    /\ dedup_unique = <<dedup_moments[1], dedup_moments[3]>>


-----------------------------------------------------------------------------
(* Cue blocks that follow one another *)

IsTimestampLine(k) == Contains(Arrow, vtt_lines[k])

\* the timestamp lines that a non-blank text line follows
CueLines ==
    { k \in 1..(Len(vtt_lines) - 1) :
        /\ IsTimestampLine(k)
        /\ Strip(vtt_lines[k + 1]) # <<>>
        /\ ~IsTimestampLine(k + 1) }

\* the n-th element of a set of indices, in increasing order
NthIndex(S, n) ==
    CHOOSE k \in S : Cardinality({ j \in S : j < k }) = n - 1

\* C29 as stated: when every timestamp line is well formed, the parser
\* returns exactly one caption for every timestamp line that is followed by
\* a non-blank text line, in the order of the input and with that line's
\* times, whether or not a blank line separates the cue blocks.
C29_OneCaptionPerCue ==
    (ppc = "done" /\ \A k \in 1..Len(vtt_lines) :
                        IsTimestampLine(k) => ~CueTimes(Strip(vtt_lines[k])).raised) =>
        /\ Len(parsed_captions) = Cardinality(CueLines)
        /\ \A n \in 1..Len(parsed_captions) :
              LET times == CueTimes(Strip(vtt_lines[NthIndex(CueLines, n)])) IN
              /\ parsed_captions[n].start = times.start
              /\ parsed_captions[n].end = times.end


-----------------------------------------------------------------------------
(* chunk_by_sections (extract-hansard-moments-chunked.py) *)

\* most sections of a sitting
MaxSections == 4

\* line 91: a section longer than this is a chunk by itself
LargeSectionSize == 80000

\* line 111: the sections of a combined chunk hold at most this together
CombinedSizeLimit == 60000

\* the mutated test: only the new section's own size is looked at
ExceedsLimitAlone(size, section_size) == section_size > CombinedSizeLimit

\* line 111: current_size + section_size > 60000
ExceedsLimit(size, section_size) == size + section_size > CombinedSizeLimit

\* lines 94-98, 113-117, 133-137: the chunk of the sections collected so far
CombinedChunk(nums) == [sections |-> nums, type |-> "combined"]

\* lines 104-109: the chunk of one large section
LargeChunk(i) == [sections |-> <<i>>, type |-> "large"]

\* `if current_chunk:` and the append under it
Flushed(cs, nums) == IF nums # <<>> THEN Append(cs, CombinedChunk(nums)) ELSE cs

\* lines 73-81
SectionBegin ==
    /\ spc = "start"
    /\ spc' = IF sections = <<>> THEN "done" ELSE "loop"
    /\ section_i' = 1
    /\ section_chunks' = <<>>
    /\ current_size' = 0
    /\ current_section_nums' = <<>>
    /\ UNCHANGED sections
    /\ UNCHANGED <<chunkVars, locatorVars, consolidateVars, dedupVars,
                   rerankVars, runVars, parseVars>>

\* lines 83-129: one iteration of the loop over the sections
SectionStep ==
    /\ spc = "loop"
    /\ section_i <= Len(sections)
    /\ LET section_size == sections[section_i] IN
       IF section_size > LargeSectionSize
       THEN /\ section_chunks' =
                 Append(Flushed(section_chunks, current_section_nums),
                        LargeChunk(section_i))
            /\ IF current_section_nums # <<>>
               THEN current_size' = 0 /\ current_section_nums' = <<>>
               ELSE UNCHANGED <<current_size, current_section_nums>>
       ELSE IF ExceedsLimit(current_size, section_size)
       THEN /\ section_chunks' = Flushed(section_chunks, current_section_nums)
            /\ current_size' = section_size
            /\ current_section_nums' = <<section_i>>
       ELSE /\ current_size' = current_size + section_size
            /\ current_section_nums' = Append(current_section_nums, section_i)
            /\ UNCHANGED section_chunks
    /\ section_i' = section_i + 1
    /\ UNCHANGED <<sections, spc>>
    /\ UNCHANGED <<chunkVars, locatorVars, consolidateVars, dedupVars,
                   rerankVars, runVars, parseVars>>

\* lines 131-139: the remaining chunk is flushed, the chunks are returned
SectionReturn ==
    /\ spc = "loop"
    /\ section_i > Len(sections)
    /\ section_chunks' = Flushed(section_chunks, current_section_nums)
    /\ spc' = "done"
    /\ UNCHANGED <<sections, section_i, current_size, current_section_nums>>
    /\ UNCHANGED <<chunkVars, locatorVars, consolidateVars, dedupVars,
                   rerankVars, runVars, parseVars>>

\* text lengths of a section: empty, small, around the two limits
SectionSizes == { 0, 20000, 30000, 30001, 60000, 60001, 80000, 80001 }

InitSection ==
    /\ sections \in UNION { [1..n -> SectionSizes] : n \in 0..MaxSections }
    /\ section_i = 0
    /\ section_chunks = <<>>
    /\ current_size = 0
    /\ current_section_nums = <<>>
    /\ spc = "start"
    /\ ChunkIdle /\ LocatorIdle /\ ConsolidateIdle /\ DedupIdle /\ RerankIdle
    /\ RunIdle /\ ParseIdle

NextSection == SectionBegin \/ SectionStep \/ SectionReturn

SpecSection == InitSection /\ [][NextSection]_vars

-----------------------------------------------------------------------------
(* Properties of chunk_by_sections *)

\* the section numbers of the first n chunks, one chunk after the other
RECURSIVE SectionsOfChunks(_)
SectionsOfChunks(n) ==
    IF n = 0 THEN <<>>
    ELSE SectionsOfChunks(n - 1) \o section_chunks[n].sections

\* the text length of the sections of a chunk together
RECURSIVE TotalSize(_, _)
TotalSize(nums, n) ==
    IF n = 0 THEN 0 ELSE sections[nums[n]] + TotalSize(nums, n - 1)

=============================================================================
